---------------------------- MODULE Spec2Model ----------------------------
(***************************************************************************)
(* A model of the job_scraper ingestion pipeline:                          *)
(*   src/main.py                      JobScraperOrchestrator               *)
(*   src/utils/description_fetcher.py DescriptionFetcher                   *)
(*   src/utils/deduplicator.py        JobDeduplicator                      *)
(*   src/utils/geocoding.py           Geocoder                             *)
(*   src/ai/categorizer.py            JobCategorizer                       *)
(*   src/database/mongo_client.py     MongoDBClient                        *)
(*                                                                         *)
(* Python values are tagged records, so that None, a missing dict key, a   *)
(* string, an integer and a list stay distinguishable the way they are in  *)
(* the program.                                                            *)
(***************************************************************************)
EXTENDS Integers, Sequences, FiniteSets, Bags, TLC

VARIABLES
    pc,               \* control location of run / process_job_list
    limit_per_language, \* self.limit_per_language (NoneV: no quota)
    days_window,      \* self.days_window
    lang_idx,         \* position of `for lang in self.languages`
    scraper_idx,      \* position of `for scraper in self.scrapers`
    kw_idx,           \* position of `for keyword in self.keywords`
    page,             \* page of the paged (Adzuna) loop
    self_lang_count,  \* self.lang_count
    lang_count,       \* the parameter/local lang_count of process_job_list
    old_count,        \* old_count of the paged loop
    stats,            \* self.stats
    batch,            \* number of jobs of the current list not yet iterated
    supply,           \* number of jobs the adapters can still report in this run
    job,              \* the job dict being processed
    is_markdown,      \* local is_markdown
    ai_data,          \* local ai_data
    geo,              \* local geo (result of get_coordinates)
    calls,            \* operations invoked for the current job, in order
    db_jobs,          \* the jobs collection: the bag of the links of its documents
    db_companies,     \* the companies collection
    db_seniorities,   \* the seniorities collection
    close_calls,      \* number of db_client.close() calls made
    persisted,        \* ids returned by insert_job during the current language pass
    last_insert,      \* what the last insert_job call returned
    slept,            \* the loop slept since the last request to the AI provider
    pages_requested,  \* page requests made for the current language
    fx                \* scratch state of the pure-function specifications

vars == << pc, limit_per_language, days_window, lang_idx, scraper_idx, kw_idx,
           page, self_lang_count, lang_count, old_count, stats, batch, supply, job,
           is_markdown, ai_data, geo, calls, db_jobs, db_companies,
           db_seniorities, close_calls, persisted, last_insert, slept,
           pages_requested, fx >>

-----------------------------------------------------------------------------
(* Bounds of the model *)

\* longest list one scrape() call returns
MaxBatch == 2
\* jobs the adapters report in one run, all calls together
MaxJobs == 4
\* pages of the paged loop the model follows
MaxPage == 7

(* Program constants *)

\* `len(desc) < 500`
DescThreshold == 500
\* `if page > 5:  # Safety break`
SafetyPage == 5

-----------------------------------------------------------------------------
(* Python values *)

NoneV == [t |-> "none"]
Absent == [t |-> "absent"]             \* a key the dict does not have
Str(s) == [t |-> "str", s |-> s]       \* a string used as an opaque name
Chars(cs) == [t |-> "chars", cs |-> cs] \* a string, character by character
IntV(n) == [t |-> "int", n |-> n]
BoolV(b) == [t |-> "bool", b |-> b]
FloatV(n, frac) == [t |-> "float", n |-> n, frac |-> frac] \* n + frac/10, n >= 0
ListV(l) == [t |-> "list", l |-> l]
DictV(d) == [t |-> "dict", d |-> d]

\* Python truthiness (`if x:`, `not x`, `x or y`)
Truthy(v) ==
    CASE v.t = "none" -> FALSE
      [] v.t = "absent" -> FALSE
      [] v.t = "str" -> v.s # ""
      [] v.t = "chars" -> Len(v.cs) > 0
      [] v.t = "int" -> v.n # 0
      [] v.t = "bool" -> v.b
      [] v.t = "float" -> v.n # 0 \/ v.frac # 0
      [] v.t = "list" -> Len(v.l) > 0
      [] v.t = "dict" -> \E f \in DOMAIN v.d : v.d[f].t # "absent"
      [] v.t = "text" -> v.len > 0
      [] v.t = "md" -> \E i \in 1..Len(v.toks) :
                          v.toks[i].k = "image" \/ v.toks[i].body > 0
      [] OTHER -> TRUE

\* dict.get(key): a missing key reads as None
Get(v) == IF v.t = "absent" THEN NoneV ELSE v

\* dict.get(key, default)
GetOr(v, default) == IF v.t = "absent" THEN default ELSE v

IsStrV(v) == v.t \in {"str", "chars"}

-----------------------------------------------------------------------------
(* Strings, character by character *)

\* str.lower() on one character of the model's alphabet
LowerChar(c) ==
    CASE c = "P" -> "p"
      [] c = "Y" -> "y"
      [] c = "G" -> "g"
      [] c = "O" -> "o"
      [] OTHER -> c

Lower(cs) == [i \in 1..Len(cs) |-> LowerChar(cs[i])]

\* `needle in hay`
Contains(hay, needle) ==
    \E i \in 0..(Len(hay) - Len(needle)) :
        SubSeq(hay, i + 1, i + Len(needle)) = needle

-----------------------------------------------------------------------------
(* Configuration of the orchestrator (JobScraperOrchestrator.__init__) *)

\* self.languages, shortened to two of the five default languages
languages == << "en", "it" >>

\* self.scrapers, shortened to the paged adapter and one keyword adapter that
\* is registered after it, named by the `source` their jobs carry
scrapers == << "Adzuna", "RSS Feed" >>

\* isinstance(scraper, AdzunaScraper)
IsAdzuna(scraper) == scraper = "Adzuna"

\* self.keywords, shortened to two entries over the model's alphabet
keywords == << << "p", "y" >>, << "g", "o" >> >>

-----------------------------------------------------------------------------
(* Date Normalizer *)

\* a datetime: `age` is now minus the instant, in hours of wall-clock reading;
\* `aware` tells whether it carries tzinfo
Instant(age, aware) == [t |-> "instant", age |-> age, aware |-> aware]

\* a date string as strptime and the substring tests see it: fmt is the index
\* of the first format of `fmts` it matches (0: none), age the reading of the
\* matched fields, has_today whether it contains today's YYYY-MM-DD, marker
\* whether its lower-case form contains "today" or "oggi"
DateStr(fmt, age, has_today, marker) ==
    [t |-> "datestr", fmt |-> fmt, age |-> age, has_today |-> has_today,
     marker |-> marker]

\* an aware datetime whose tzinfo is `offset` hours east of UTC: `age` is
\* still that of its wall-clock reading, so that of its instant is age + offset
InstantTz(age, offset) ==
    [t |-> "instant", age |-> age, aware |-> TRUE, offset |-> offset]

\* a date string in the RFC-1123 form with numeric offset (the fourth format,
\* "%a, %d %b %Y %H:%M:%S %z"): strptime gives InstantTz(age, offset)
DateStrTz(age, offset) ==
    [t |-> "datestr", fmt |-> 4, age |-> age, has_today |-> FALSE,
     marker |-> FALSE, offset |-> offset]

\* a datetime.date, `age` that of its midnight
DateV(age) == [t |-> "date", age |-> age]

\* fault: the branch for datetime.date is missing
parse_date_without_date_branch(pub_date) ==
    IF ~Truthy(pub_date) THEN NoneV
    ELSE IF pub_date = Str("older") THEN NoneV
    ELSE IF pub_date.t = "instant" THEN Instant(pub_date.age, FALSE)
    ELSE IF pub_date.t = "datestr" THEN
        IF pub_date.fmt > 0 THEN Instant(pub_date.age, FALSE)
        ELSE IF pub_date.has_today THEN Instant(0, FALSE)
        ELSE NoneV
    ELSE NoneV

\* parse_date; dt.replace(tzinfo=None) keeps the wall-clock reading
parse_date(pub_date) ==
    IF ~Truthy(pub_date) THEN NoneV
    ELSE IF pub_date = Str("older") THEN NoneV
    ELSE IF pub_date.t = "instant" THEN Instant(pub_date.age, FALSE)
    ELSE IF pub_date.t = "date" THEN Instant(pub_date.age, FALSE)
    ELSE IF pub_date.t = "datestr" THEN
        IF pub_date.fmt > 0 THEN Instant(pub_date.age, FALSE)
        ELSE IF pub_date.has_today THEN Instant(0, FALSE)
        ELSE NoneV
    ELSE NoneV

\* timedelta.days: whole days, rounded towards minus infinity
Days(age) == age \div 24

\* fault: the boundary is left out (`diff < days_window`)
is_published_today_exclusive(pub_date, window) ==
    LET dt == parse_date(pub_date) IN
    IF ~Truthy(dt) THEN
        (pub_date.t = "datestr" /\ pub_date.marker)
    ELSE Days(dt.age) < window

\* fault: a date that parses passes, whatever its age
is_published_today_any_age(pub_date, window) ==
    LET dt == parse_date(pub_date) IN
    IF ~Truthy(dt) THEN
        (pub_date.t = "datestr" /\ pub_date.marker)
    ELSE TRUE

is_published_today(pub_date, window) ==
    LET dt == parse_date(pub_date) IN
    IF ~Truthy(dt) THEN
        (pub_date.t = "datestr" /\ pub_date.marker)
    ELSE Days(dt.age) <= window

-----------------------------------------------------------------------------
(* Relevance Filter *)

\* fault: the title is matched as it is written, not in lower case
is_relevant_job_case_sensitive(title) ==
    IF ~Truthy(title) THEN FALSE
    ELSE \E i \in 1..Len(keywords) : Contains(title.cs, Lower(keywords[i]))

is_relevant_job(title) ==
    IF ~Truthy(title) THEN FALSE
    ELSE \E i \in 1..Len(keywords) :
            Contains(Lower(title.cs), Lower(keywords[i]))

-----------------------------------------------------------------------------
(* Persistence gateway (MongoDBClient) and Deduplicator *)

\* an ObjectId
Oid(n) == [t |-> "oid", n |-> n]

\* jobs.find_one({"link": link}): a stored document with that link, or None
find_one(coll, link) ==
    IF BagIn(link, coll) THEN [link |-> link] ELSE NoneV

\* fault: the collection has no unique index on link
insert_one_without_index(coll, doc) == FALSE

\* insert_one under the unique index on link: a second document with a
\* stored link is refused (DuplicateKeyError)
insert_one_raises(coll, doc) == BagIn(Get(doc["link"]), coll)

\* MongoDBClient.insert_job: [id, coll], the id returned and the collection
\* afterwards
insert_job(coll, job_data) ==
    IF insert_one_raises(coll, job_data)
    THEN [id |-> NoneV, coll |-> coll]
    ELSE [id |-> Oid(BagCardinality(coll) + 1),
          coll |-> coll (+) SetToBag({Get(job_data["link"])})]

\* fault: the guard on a missing link is left out
is_duplicate_unguarded(coll, j) ==
    [dup |-> find_one(coll, Get(j["link"])) # NoneV, lookups |-> 1]

\* JobDeduplicator.is_duplicate: [dup, lookups]
is_duplicate(coll, j) ==
    LET link == Get(j["link"]) IN
    IF ~Truthy(link) THEN [dup |-> FALSE, lookups |-> 0]
    ELSE [dup |-> find_one(coll, link) # NoneV, lookups |-> 1]

-----------------------------------------------------------------------------
(* Content Extractor (DescriptionFetcher) *)

(* The parsed page.  A node is a text node, an image, a nested tag with its   *)
(* own children, or a tag of the kinds removed up front (script, style, ...). *)
(* A text node is given by its lengths: leading whitespace, the stripped      *)
(* text, trailing whitespace (body = 0: whitespace only, counted in lead).    *)
Text(lead, body, trail) == [k |-> "text", lead |-> lead, body |-> body, trail |-> trail]
Img(src) == [k |-> "img", src |-> src]
El(kids) == [k |-> "el", kids |-> kids]
Junk(body) == [k |-> "junk", body |-> body]

RECURSIVE SumSeq(_)
SumSeq(ns) == IF ns = << >> THEN 0 ELSE Head(ns) + SumSeq(Tail(ns))

RECURSIVE Concat(_)
Concat(ss) == IF ss = << >> THEN << >> ELSE Head(ss) \o Concat(Tail(ss))

\* `for element in soup([...]): element.decompose()`
RECURSIVE remove_unwanted(_)
remove_unwanted(nodes) ==
    IF nodes = << >> THEN << >>
    ELSE LET n == Head(nodes) IN
         IF n.k = "junk" THEN remove_unwanted(Tail(nodes))
         ELSE IF n.k = "el"
              THEN << El(remove_unwanted(n.kids)) >> \o remove_unwanted(Tail(nodes))
              ELSE << n >> \o remove_unwanted(Tail(nodes))

\* the text nodes below a list of nodes, in document order
RECURSIVE texts(_)
texts(nodes) ==
    IF nodes = << >> THEN << >>
    ELSE LET n == Head(nodes) IN
         (CASE n.k = "text" -> << n >>
            [] n.k = "el" -> texts(n.kids)
            [] n.k = "junk" -> << Text(0, n.body, 0) >>
            [] OTHER -> << >>) \o texts(Tail(nodes))

\* the images below a list of nodes, in document order (find_all("img"))
RECURSIVE find_all_img(_)
find_all_img(nodes) ==
    IF nodes = << >> THEN << >>
    ELSE LET n == Head(nodes) IN
         (CASE n.k = "img" -> << n >>
            [] n.k = "el" -> find_all_img(n.kids)
            [] OTHER -> << >>) \o find_all_img(Tail(nodes))

\* len(el.get_text(strip=True)): every string stripped, then joined
text_len(nodes) == SumSeq([i \in 1..Len(texts(nodes)) |-> texts(nodes)[i].body])

\* len(s.strip()) of the concatenation s of the given text nodes
strip_len(ts) ==
    LET raw(x) == x.lead + x.body + x.trail
        solid == {i \in 1..Len(ts) : ts[i].body > 0}
    IN  IF solid = {} THEN 0
        ELSE LET first == CHOOSE i \in solid : \A j \in solid : i <= j
                 last == CHOOSE i \in solid : \A j \in solid : j <= i
             IN  SumSeq([i \in 1..Len(ts) |->
                    IF i < first \/ i > last THEN 0
                    ELSE raw(ts[i])
                         - (IF i = first THEN ts[i].lead ELSE 0)
                         - (IF i = last THEN ts[i].trail ELSE 0)])

\* the siblings before the first image of `nodes`, nearest first
\* (first_img.previous_siblings); << >> also when there is no image
RECURSIVE previous_siblings(_)
previous_siblings(nodes) ==
    LET hits == {i \in 1..Len(nodes) :
                    nodes[i].k = "img"
                    \/ (nodes[i].k = "el" /\ find_all_img(nodes[i].kids) # << >>)}
    IN  IF hits = {} THEN << >>
        ELSE LET i == CHOOSE i \in hits : \A j \in hits : i <= j IN
             IF nodes[i].k = "img"
             THEN [j \in 1..(i - 1) |-> nodes[i - j]]
             ELSE previous_siblings(nodes[i].kids)

\* the nodes with the first image (in document order) removed
RECURSIVE decompose_first_img(_)
decompose_first_img(nodes) ==
    IF nodes = << >> THEN << >>
    ELSE LET n == Head(nodes) IN
         IF n.k = "img" THEN Tail(nodes)
         ELSE IF n.k = "el" /\ find_all_img(n.kids) # << >>
              THEN << El(decompose_first_img(n.kids)) >> \o Tail(nodes)
              ELSE << n >> \o decompose_first_img(Tail(nodes))

\* `for img in target_container.find_all("img"): img.decompose()`
RECURSIVE decompose_all_img(_)
decompose_all_img(nodes) ==
    IF nodes = << >> THEN << >>
    ELSE LET n == Head(nodes) IN
         IF n.k = "img" THEN decompose_all_img(Tail(nodes))
         ELSE IF n.k = "el"
              THEN << El(decompose_all_img(n.kids)) >> \o decompose_all_img(Tail(nodes))
              ELSE << n >> \o decompose_all_img(Tail(nodes))

\* markdownify: the text of every node in document order, an image becoming
\* an image link ![alt](src)
RECURSIVE md(_)
md(nodes) ==
    IF nodes = << >> THEN << >>
    ELSE LET n == Head(nodes) IN
         (CASE n.k = "text" -> << n >>
            [] n.k = "img" -> << [k |-> "image", src |-> n.src] >>
            [] n.k = "el" -> md(n.kids)
            [] OTHER -> << Text(0, n.body, 0) >>) \o md(Tail(nodes))

\* _clean_markdown: blank-line runs collapsed, the whole stripped; whitespace
\* only text is dropped at both ends
RECURSIVE lstrip_toks(_)
lstrip_toks(toks) ==
    IF toks = << >> THEN << >>
    ELSE IF Head(toks).k = "text" /\ Head(toks).body = 0 THEN lstrip_toks(Tail(toks))
    ELSE IF Head(toks).k = "text"
         THEN << Text(0, Head(toks).body, Head(toks).trail) >> \o Tail(toks)
         ELSE toks

Reverse(q) == [i \in 1..Len(q) |-> q[Len(q) + 1 - i]]

FlipTok(x) == IF x.k = "text" THEN Text(x.trail, x.body, x.lead) ELSE x

_clean_markdown(toks) ==
    LET l == lstrip_toks(toks)
        r == lstrip_toks([i \in 1..Len(l) |-> FlipTok(Reverse(l)[i])])
    IN  [i \in 1..Len(r) |-> FlipTok(Reverse(r)[i])]

Markdown(toks) == [t |-> "md", toks |-> toks]

\* `if text_len > 300` and `len(body.get_text(strip=True)) > 300`
TextFloor == 300
\* `if len(text_upto_img.strip()) < 50`
LogoTextLimit == 50
\* number of entries of `selectors`
NumSelectors == 7

\* A parsed page: [els, body].  els are the elements some selector matches,
\* in document order, each with the set `sels` of the selectors (1..7, in the
\* order of the list) that match it; body is the <body> element or NoneV.
Page(els, body) == [t |-> "html", els |-> els, body |-> body]

\* the `candidates` list: selector by selector, document order within one
\* selector, elements under the floor left out
candidates(els) ==
    Concat([s \in 1..NumSelectors |->
        SelectSeq([i \in 1..Len(els) |-> [el |-> els[i], sel |-> s]],
                  LAMBDA c : s \in c.el.sels /\ text_len(c.el.kids) > TextFloor)])

\* candidates.sort(key=text_len, reverse=True)[0]: the sort is stable, so
\* the first candidate of greatest length
sorted_first(cs) ==
    LET i == CHOOSE i \in 1..Len(cs) :
                /\ \A j \in 1..Len(cs) :
                      text_len(cs[j].el.kids) <= text_len(cs[i].el.kids)
                /\ \A j \in 1..(i - 1) :
                      text_len(cs[j].el.kids) < text_len(cs[i].el.kids)
    IN  cs[i].el

\* the container _extract_content works on, NoneV when there is none
target_container(html) ==
    LET els == [i \in 1..Len(html.els) |->
                   [sels |-> html.els[i].sels,
                    kids |-> remove_unwanted(html.els[i].kids)]]
        cs == candidates(els)
    IN  IF cs # << >> THEN sorted_first(cs)
        ELSE IF html.body # NoneV
                /\ text_len(remove_unwanted(html.body.kids)) > TextFloor
             THEN [sels |-> {}, kids |-> remove_unwanted(html.body.kids)]
             ELSE NoneV

\* the logo heuristic: [logo_url, kids], the captured URL and the container's
\* children afterwards
extract_logo(kids) ==
    LET imgs == find_all_img(kids) IN
    IF imgs = << >> THEN [logo_url |-> NoneV, kids |-> kids]
    ELSE IF strip_len(texts(previous_siblings(kids))) < LogoTextLimit
         THEN LET logo_url == Get(imgs[1].src) IN
              [logo_url |-> logo_url,
               kids |-> IF Truthy(logo_url) THEN decompose_first_img(kids) ELSE kids]
         ELSE [logo_url |-> NoneV, kids |-> kids]

\* fault: the images after the logo stay in the container
strip_images_skipped(kids) == kids

\* `for img in target_container.find_all("img"): img.decompose()`
strip_images(kids) == decompose_all_img(kids)

\* DescriptionFetcher._extract_content: [desc, logo]
_extract_content(html) ==
    LET target == target_container(html) IN
    IF target = NoneV THEN [desc |-> NoneV, logo |-> NoneV]
    ELSE LET lg == extract_logo(target.kids) IN
         [desc |-> Markdown(_clean_markdown(md(strip_images(lg.kids)))),
          logo |-> lg.logo_url]

\* What the network does to one request: the connection fails, the request
\* times out, or a response arrives with a status and a body; the body is a
\* page, or text that cannot be decoded or parsed.
ConnError == [kind |-> "conn_error"]
Timeout == [kind |-> "timeout"]
Response(status, body) == [kind |-> "response", status |-> status, body |-> body]
Garbled == [t |-> "garbled"]

\* the try block of fetch raises
fetch_raises_inside(net) ==
    \/ net.kind # "response"
    \/ net.status # 200
    \/ net.body.t # "html"

\* fault: the except clause of fetch catches the client's errors only, and
\* the `raise Exception` of a status other than 200 leaves fetch
fetch_narrow_except(url, net) ==
    IF ~Truthy(url) THEN [desc |-> NoneV, logo |-> NoneV, raised |-> FALSE]
    ELSE IF fetch_raises_inside(net)
         THEN [desc |-> NoneV, logo |-> NoneV,
               raised |-> (net.kind = "response" /\ net.status # 200)]
         ELSE LET r == _extract_content(net.body) IN
              [desc |-> r.desc, logo |-> r.logo, raised |-> FALSE]

\* DescriptionFetcher.fetch: [desc, logo, raised]; raised tells whether an
\* exception leaves fetch
fetch(url, net) ==
    IF ~Truthy(url) THEN [desc |-> NoneV, logo |-> NoneV, raised |-> FALSE]
    ELSE IF fetch_raises_inside(net)
         THEN [desc |-> NoneV, logo |-> NoneV, raised |-> FALSE]
         ELSE LET r == _extract_content(net.body) IN
              [desc |-> r.desc, logo |-> r.logo, raised |-> FALSE]

-----------------------------------------------------------------------------
(* AI categorizer and geocoder *)

\* the keys a categorization result may carry
AiFields == {"city", "country", "formatted_address", "salary_min", "salary_max",
             "remote", "is_remote", "seniority", "employment_type", "language"}

\* the keys of a job dict
JobFields == AiFields \cup
             {"link", "title", "published_at", "description", "source", "company",
              "location", "location_geo", "formatted_address_verified",
              "company_id", "seniority_id"}

\* a dict with the given keys set and every other key missing
Dict(fields, set) == [f \in fields |-> IF f \in DOMAIN set THEN set[f] ELSE Absent]

\* `description[:3000]` in the prompt, built before the try block: None and a
\* missing value are not subscriptable
categorize_job_raises(description) == description.t \in {"none", "absent"}

\* JobCategorizer.categorize_job: the parsed reply, or None when the request
\* or json.loads raised (reply = NoneV)
categorize_job(title, description, reply) == reply

\* Geocoder.get_coordinates: None without an address, else what the provider
\* answers (None: no key, status not OK, or an exception)
get_coordinates(address, answer) ==
    IF ~Truthy(address) THEN NoneV ELSE answer

GeoResult(lat, lng, formatted_address) ==
    [t |-> "geo", lat |-> lat, lng |-> lng, formatted_address |-> formatted_address]

-----------------------------------------------------------------------------
(* Enrichment merge (process_job_list, lines 295-363) *)

RECURSIVE Digits(_)
Digits(n) ==
    IF n < 10 THEN << CASE n = 0 -> "0" [] n = 1 -> "1" [] n = 2 -> "2"
                        [] n = 3 -> "3" [] n = 4 -> "4" [] n = 5 -> "5"
                        [] n = 6 -> "6" [] n = 7 -> "7" [] n = 8 -> "8"
                        [] OTHER -> "9" >>
    ELSE Digits(n \div 10) \o Digits(n % 10)

DigitChars == {"0", "1", "2", "3", "4", "5", "6", "7", "8", "9"}

DigitValue(c) == CHOOSE d \in 0..9 : Digits(d) = << c >>

RECURSIVE ParseDigits(_)
ParseDigits(cs) ==
    IF cs = << >> THEN 0
    ELSE 10 * ParseDigits(SubSeq(cs, 1, Len(cs) - 1)) + DigitValue(cs[Len(cs)])

\* str(x)
py_str(v) ==
    CASE v.t \in {"str", "chars"} -> v
      [] v.t = "int" -> Chars(Digits(v.n))
      [] v.t = "none" -> Chars(<< "N", "o", "n", "e" >>)
      [] v.t = "bool" -> Chars(IF v.b THEN << "T", "r", "u", "e" >>
                                       ELSE << "F", "a", "l", "s", "e" >>)
      [] OTHER -> [t |-> "repr", of |-> v]

\* int(x): [ok, n]; ok = FALSE when int() raises
py_int(v) ==
    CASE v.t = "int" -> [ok |-> TRUE, n |-> v.n]
      [] v.t = "bool" -> [ok |-> TRUE, n |-> IF v.b THEN 1 ELSE 0]
      [] v.t = "float" -> [ok |-> TRUE, n |-> v.n]
      [] v.t = "chars" ->
            IF Len(v.cs) > 0 /\ \A i \in 1..Len(v.cs) : v.cs[i] \in DigitChars
            THEN [ok |-> TRUE, n |-> ParseDigits(v.cs)]
            ELSE [ok |-> FALSE, n |-> 0]
      [] OTHER -> [ok |-> FALSE, n |-> 0]

\* lines 296-303
normalize_city(city) ==
    IF city.t = "list"
    THEN IF Truthy(city) THEN py_str(city.l[1]) ELSE NoneV
    ELSE IF Truthy(Get(city)) /\ ~(city.t \in {"str", "chars", "none"})
         THEN py_str(city)
         ELSE city

\* lines 306-315
normalize_salary(salary) ==
    IF Truthy(Get(salary))
    THEN IF py_int(salary).ok THEN IntV(py_int(salary).n) ELSE NoneV
    ELSE salary

\* fault: lines 320-321 left out, the legacy alias is never read
normalize_remote_without_alias(d) ==
    BoolV(Truthy(GetOr(d["remote"], BoolV(FALSE))))

\* lines 318-321: the value of ai_data["remote"]
normalize_remote(d) ==
    IF d["is_remote"].t # "absent"
    THEN BoolV(Truthy(d["is_remote"]))
    ELSE BoolV(Truthy(GetOr(d["remote"], BoolV(FALSE))))

\* ai_data after lines 296-321
normalize_ai(d) ==
    [f \in AiFields |->
        CASE f = "city" -> normalize_city(d[f])
          [] f = "salary_min" -> normalize_salary(d[f])
          [] f = "salary_max" -> normalize_salary(d[f])
          [] f = "remote" -> normalize_remote(d)
          [] f = "is_remote" -> Absent
          [] OTHER -> d[f]]

\* fault: the AI result only fills what the adapter left out
update_missing_only(j, d) ==
    [f \in JobFields |->
        IF f \in AiFields /\ d[f].t # "absent" /\ Get(j[f]) = NoneV
        THEN d[f] ELSE j[f]]

\* job.update(ai_data)
update(j, d) ==
    [f \in JobFields |-> IF f \in AiFields /\ d[f].t # "absent" THEN d[f] ELSE j[f]]

\* lines 324-333: the update, with the adapter's salary figures restored
restore_salary(original, updated) ==
    [updated EXCEPT
        !["salary_min"] = IF Get(original["salary_min"]) # NoneV
                          THEN original["salary_min"] ELSE @,
        !["salary_max"] = IF Get(original["salary_max"]) # NoneV
                          THEN original["salary_max"] ELSE @]

\* lines 337-340
copy_location(j, d) ==
    [j EXCEPT !["country"] = IF Truthy(Get(d["country"])) THEN d["country"] ELSE @,
              !["city"] = IF Truthy(Get(d["city"])) THEN d["city"] ELSE @]

\* lines 295-340: the job after the AI result d (a non-empty dict) is folded in
merge(j, d) ==
    LET n == normalize_ai(d) IN copy_location(restore_salary(j, update(j, n)), n)

\* ", ".join(parts)
Joined(parts) == [t |-> "joined", parts |-> parts]

\* str.join raises TypeError on an item that is no string
join_raises(parts) ==
    \E i \in 1..Len(parts) : parts[i].t \notin {"str", "chars", "repr"}

\* lines 346-349: the parts joined when the AI gave no address
address_parts(j, n) ==
    IF ~Truthy(Get(n["formatted_address"])) /\ Truthy(Get(j["city"]))
    THEN IF Truthy(Get(j["country"])) THEN << j["city"], j["country"] >>
         ELSE << j["city"] >>
    ELSE << >>

\* lines 343-350, on the merged job and the normalized ai_data
geo_address(j, n) ==
    LET given == Get(n["formatted_address"]) IN
    IF ~Truthy(given) /\ Truthy(Get(j["city"]))
    THEN IF Truthy(Get(j["country"]))
         THEN Joined(<< j["city"], j["country"] >>)
         ELSE Joined(<< j["city"] >>)
    ELSE given

Point(coordinates) == [t |-> "Point", coordinates |-> coordinates]

\* fault: the coordinates are written latitude first
attach_geo_lat_first(j, g) ==
    IF ~Truthy(g) THEN j
    ELSE [j EXCEPT !["location_geo"] = Point(<< g.lat, g.lng >>),
                   !["formatted_address_verified"] = g.formatted_address,
                   !["location"] = IF ~Truthy(Get(@)) THEN g.formatted_address ELSE @]

\* lines 354-363
attach_geo(j, g) ==
    IF ~Truthy(g) THEN j
    ELSE [j EXCEPT !["location_geo"] = Point(<< g.lng, g.lat >>),
                   !["formatted_address_verified"] = g.formatted_address,
                   !["location"] = IF ~Truthy(Get(@)) THEN g.formatted_address ELSE @]

-----------------------------------------------------------------------------
(* Persistence gateway: companies and seniorities *)

CompanyFields == {"name", "logo", "logo_url", "website"}

\* the index of the document of `coll` whose field `key` is `value`, 0 if none
IndexOf(coll, key, value) ==
    IF \E i \in 1..Len(coll) : coll[i][key] = value
    THEN CHOOSE i \in 1..Len(coll) : coll[i][key] = value
    ELSE 0

\* fault: the defaults are written with $set, on every upsert
upsert_company_resets_defaults(coll, company_data, now) ==
    LET name == Get(company_data.d["name"])
        logo == IF Truthy(Get(company_data.d["logo"]))
                THEN company_data.d["logo"] ELSE Get(company_data.d["logo_url"])
        website == Get(company_data.d["website"])
        i == IndexOf(coll, "name", name)
    IN  IF ~Truthy(name) THEN [id |-> NoneV, coll |-> coll]
        ELSE IF i > 0
        THEN [id |-> coll[i]._id,
              coll |-> [coll EXCEPT ![i] =
                  [@ EXCEPT !.logo = IF Truthy(logo) THEN logo ELSE @,
                            !.logo_url = IF Truthy(logo) THEN logo ELSE @,
                            !.website = IF Truthy(website) THEN website ELSE @,
                            !.created_at = now, !.trustScore = 80,
                            !.totalRatings = 0, !.totalLikes = 0,
                            !.totalDislikes = 0]]]
        ELSE [id |-> Oid(Len(coll) + 1),
              coll |-> Append(coll,
                  [_id |-> Oid(Len(coll) + 1), name |-> name,
                   logo |-> IF Truthy(logo) THEN logo ELSE Absent,
                   logo_url |-> IF Truthy(logo) THEN logo ELSE Absent,
                   website |-> IF Truthy(website) THEN website ELSE Absent,
                   created_at |-> now, trustScore |-> 80, totalRatings |-> 0,
                   totalLikes |-> 0, totalDislikes |-> 0])]

\* MongoDBClient.upsert_company: [id, coll]; now is datetime.utcnow()
upsert_company(coll, company_data, now) ==
    LET name == Get(company_data.d["name"])
        logo == IF Truthy(Get(company_data.d["logo"]))
                THEN company_data.d["logo"] ELSE Get(company_data.d["logo_url"])
        website == Get(company_data.d["website"])
        i == IndexOf(coll, "name", name)
    IN  IF ~Truthy(name) THEN [id |-> NoneV, coll |-> coll]
        ELSE IF i > 0
        THEN [id |-> coll[i]._id,
              coll |-> [coll EXCEPT ![i] =
                  [@ EXCEPT !.logo = IF Truthy(logo) THEN logo ELSE @,
                            !.logo_url = IF Truthy(logo) THEN logo ELSE @,
                            !.website = IF Truthy(website) THEN website ELSE @]]]
        ELSE [id |-> Oid(Len(coll) + 1),
              coll |-> Append(coll,
                  [_id |-> Oid(Len(coll) + 1), name |-> name,
                   logo |-> IF Truthy(logo) THEN logo ELSE Absent,
                   logo_url |-> IF Truthy(logo) THEN logo ELSE Absent,
                   website |-> IF Truthy(website) THEN website ELSE Absent,
                   created_at |-> now, trustScore |-> 80, totalRatings |-> 0,
                   totalLikes |-> 0, totalDislikes |-> 0])]

\* MongoDBClient.upsert_seniority: [id, coll]
upsert_seniority(coll, level_in, now) ==
    LET level == IF ~Truthy(level_in) THEN Str("Unknown") ELSE level_in
        i == IndexOf(coll, "level", level)
    IN  IF i > 0 THEN [id |-> coll[i]._id, coll |-> coll]
        ELSE [id |-> Oid(Len(coll) + 1),
              coll |-> Append(coll, [_id |-> Oid(Len(coll) + 1), level |-> level,
                                     created_at |-> now])]

-----------------------------------------------------------------------------
(* process_job_list, one job: the steps between two loop heads *)

\* an adapter's description as the pipeline sees it: its length, whether it
\* holds HTML tags, and how many images
TextV(len, html, imgs) == [t |-> "text", len |-> len, html |-> html, imgs |-> imgs]

\* len(desc)
DescLen(desc) == IF desc.t = "text" THEN desc.len ELSE 0

\* `if not desc or len(desc) < 500`
needs_fetch(j) ==
    LET desc == GetOr(j["description"], TextV(0, FALSE, 0)) IN
    ~Truthy(desc) \/ DescLen(desc) < DescThreshold

\* lines 244-255: a fetched description replaces the snippet, a fetched logo
\* goes to a company that has none
take_fetched(j, res) ==
    LET company == IF j["company"].t = "absent"
                   THEN DictV(Dict(CompanyFields, << >>)) ELSE j["company"]
    IN  IF ~Truthy(res.desc) THEN j
        ELSE IF ~Truthy(res.logo) THEN [j EXCEPT !["description"] = res.desc]
        ELSE [j EXCEPT !["description"] = res.desc,
                       !["company"] =
                           IF ~Truthy(Get(company.d["logo"]))
                           THEN DictV([company.d EXCEPT !["logo"] = res.logo])
                           ELSE company]

\* lines 275-282: an HTML description loses its images and becomes Markdown
to_markdown(j, already_markdown) ==
    IF Truthy(Get(j["description"])) /\ ~already_markdown
       /\ j["description"].t = "text" /\ j["description"].html
    THEN [j EXCEPT !["description"] = TextV(@.len, FALSE, 0)]
    ELSE j

\* `if self.limit_per_language and count >= self.limit_per_language`
Quota(count) == Truthy(limit_per_language) /\ count >= limit_per_language.n

\* the language and the adapter the loops are at
lang == languages[lang_idx]
scraper == scrapers[scraper_idx]

-----------------------------------------------------------------------------
(* What the environment of a run can do *)

\* the quotas a run is started with (None: the --limit flag is not given)
Limits == {NoneV, IntV(2)}

\* the links the adapters report
Links == {Str("l1"), Str("l2"), Str("l3")}

\* a page whose description container opens with the company logo
LogoPage ==
    Page(<< [sels |-> {1}, kids |-> << Img(Str("logo.png")), Text(0, 400, 0) >>] >>,
         NoneV)

\* the outcomes of the request fetch makes
RunNets == {ConnError, Response(404, Garbled), Response(200, LogoPage)}

\* a job as an adapter builds it
AdapterJob(source, link, title, published_at, description) ==
    Dict(JobFields,
         [link |-> link, title |-> title, published_at |-> published_at,
          description |-> description, source |-> Str(source),
          company |-> DictV(Dict(CompanyFields, [name |-> Str("acme")]))])

\* the jobs an adapter reports in a run: under each link a sound job with a
\* full description and one whose description is None, and a job without link
RunJobs(source) ==
    {AdapterJob(source, l, Chars(<< "P", "y" >>), Instant(30, FALSE), de) :
        l \in Links, de \in {NoneV, TextV(DescThreshold, FALSE, 0)}}
    \cup {AdapterJob(source, Absent, Chars(<< "P", "y" >>), Instant(30, FALSE),
                     TextV(DescThreshold, FALSE, 0))}

\* the jobs an adapter can report: with or without link, title and date,
\* fresh or stale, with a long, a short or no description
AdapterJobs(source) ==
    {AdapterJob(source, l, ti, d, de) :
        l \in {Str("l1"), Str("l2"), Absent},
        ti \in {Chars(<< "P", "y" >>), Chars(<< "x" >>), Absent},
        d \in {Instant(30, FALSE), Instant(50, FALSE),
               DateStr(0, 0, FALSE, TRUE), NoneV},
        de \in {NoneV, TextV(40, TRUE, 1), TextV(DescThreshold, FALSE, 0)}}

\* the replies of the AI provider: a failure, a full result, a result that
\* names no place
RunReplies ==
    {NoneV,
     DictV(Dict(AiFields, [city |-> Str("Rome"), country |-> Str("Italy"),
                           seniority |-> Str("Senior"), remote |-> BoolV(TRUE)])),
     DictV(Dict(AiFields, [language |-> Str("en")]))}

\* the answers of the geocoding provider
RunGeo == {NoneV, GeoResult(41, 12, Str("Rome, Italy"))}

\* no job in hand
NoJob == Dict(JobFields, << >>)

\* the replies and answers met in a whole run
RunRepliesShort == {NoneV, DictV(Dict(AiFields, [city |-> Str("Rome"),
                                                 seniority |-> Str("Senior")]))}
RunGeoShort == {GeoResult(41, 12, Str("Rome, Italy"))}
RunNetsShort == {ConnError}

cfgv == << limit_per_language, days_window >>
loopv == << lang_idx, scraper_idx, kw_idx, page, self_lang_count, old_count,
            pages_requested, supply >>
jobv == << job, is_markdown, ai_data, geo, calls >>
dbv == << db_jobs, db_companies, db_seniorities, close_calls >>
countv == << lang_count, stats, persisted, last_insert >>

Init ==
    /\ pc = "lang_loop"
    /\ limit_per_language \in Limits
    /\ days_window = 1
    /\ lang_idx = 1
    /\ scraper_idx = 1
    /\ kw_idx = 1
    /\ page = 1
    /\ self_lang_count = 0
    /\ lang_count = 0
    /\ old_count = 0
    /\ stats = << >>
    /\ batch = 0
    /\ supply = MaxJobs
    /\ job = NoJob
    /\ is_markdown = FALSE
    /\ ai_data = NoneV
    /\ geo = NoneV
    /\ calls = << >>
    /\ db_jobs = EmptyBag
    /\ db_companies = << >>
    /\ db_seniorities = << >>
    /\ close_calls = 0
    /\ persisted = 0
    /\ last_insert = NoneV
    /\ slept = TRUE
    /\ pages_requested = 0
    /\ fx = NoneV

-----------------------------------------------------------------------------
(* JobScraperOrchestrator.run *)

\* lines 417-423: the head of `for lang in self.languages`
NextLang ==
    /\ pc = "lang_loop"
    /\ IF lang_idx > Len(languages)
       THEN /\ pc' = "close"
            /\ UNCHANGED << self_lang_count, stats, scraper_idx, persisted,
                            pages_requested >>
       ELSE /\ self_lang_count' = 0
            /\ stats' = IF lang \in DOMAIN stats THEN stats
                        ELSE [l \in DOMAIN stats \cup {lang} |->
                                IF l = lang THEN [total |-> 0, sources |-> << >>]
                                ELSE stats[l]]
            /\ scraper_idx' = 1
            /\ persisted' = 0
            /\ pages_requested' = 0
            /\ pc' = "scraper_loop"
    /\ UNCHANGED << cfgv, lang_idx, kw_idx, page, old_count, lang_count, batch,
                    supply, jobv, dbv, last_insert, slept, fx >>

\* lines 425-436 and 476-478: the head of `for scraper in self.scrapers`
NextScraper ==
    /\ pc = "scraper_loop"
    /\ IF scraper_idx > Len(scrapers) \/ Quota(self_lang_count)
       THEN /\ lang_idx' = lang_idx + 1
            /\ pc' = "lang_loop"
            /\ UNCHANGED << page, kw_idx >>
       ELSE IF IsAdzuna(scraper)
            THEN /\ page' = 1
                 /\ pc' = "page_loop"
                 /\ UNCHANGED << lang_idx, kw_idx >>
            ELSE /\ kw_idx' = 1
                 /\ pc' = "kw_loop"
                 /\ UNCHANGED << lang_idx, page >>
    /\ UNCHANGED << cfgv, scraper_idx, self_lang_count, old_count, pages_requested,
                    supply, countv, batch, jobv, dbv, slept, fx >>

Smaller(a, b) == IF a < b THEN a ELSE b

\* lines 438-462: one turn of the paged loop up to the call of
\* process_job_list.  AdzunaScraper.scrape catches what it raises and
\* returns a list, here of n jobs.
ScrapePage ==
    /\ pc = "page_loop"
    /\ page <= MaxPage
    /\ IF Quota(self_lang_count)
       THEN /\ scraper_idx' = scraper_idx + 1
            /\ pc' = "scraper_loop"
            /\ UNCHANGED << old_count, lang_count, batch, pages_requested, supply >>
       ELSE \E n \in 0..Smaller(MaxBatch, supply) :
            /\ pages_requested' = pages_requested + 1
            /\ supply' = supply - n
            /\ IF n = 0
               THEN /\ scraper_idx' = scraper_idx + 1
                    /\ pc' = "scraper_loop"
                    /\ UNCHANGED << old_count, lang_count, batch >>
               ELSE /\ old_count' = self_lang_count
                    /\ lang_count' = self_lang_count
                    /\ batch' = n
                    /\ pc' = "job_loop"
                    /\ UNCHANGED scraper_idx
    /\ UNCHANGED << cfgv, lang_idx, kw_idx, page, self_lang_count, stats,
                    persisted, last_insert, jobv, dbv, slept, fx >>

\* lines 478-493: one turn of the keyword loop up to the call of
\* process_job_list; the adapter raises, or returns a list of n jobs
ScrapeKeyword ==
    /\ pc = "kw_loop"
    /\ IF kw_idx > Len(keywords) \/ Quota(self_lang_count)
       THEN /\ scraper_idx' = scraper_idx + 1
            /\ pc' = "scraper_loop"
            /\ UNCHANGED << kw_idx, lang_count, batch, supply >>
       ELSE \/ /\ kw_idx' = kw_idx + 1
               /\ pc' = "kw_loop"
               /\ UNCHANGED << scraper_idx, lang_count, batch, supply >>
            \/ \E n \in 0..Smaller(MaxBatch, supply) :
               /\ supply' = supply - n
               /\ lang_count' = self_lang_count
               /\ batch' = n
               /\ pc' = "job_loop"
               /\ UNCHANGED << scraper_idx, kw_idx >>
    /\ UNCHANGED << cfgv, lang_idx, page, self_lang_count, old_count,
                    pages_requested, stats, persisted, last_insert, jobv, dbv,
                    slept, fx >>

\* lines 460-472 and 491-493: process_job_list returned
ProcessReturned ==
    /\ pc = "ret"
    /\ self_lang_count' = lang_count
    /\ IF IsAdzuna(scraper)
       THEN IF lang_count = old_count /\ page > SafetyPage
            THEN /\ scraper_idx' = scraper_idx + 1
                 /\ pc' = "scraper_loop"
                 /\ UNCHANGED << page, kw_idx >>
            ELSE /\ page' = page + 1
                 /\ pc' = "page_loop"
                 /\ UNCHANGED << scraper_idx, kw_idx >>
       ELSE /\ kw_idx' = kw_idx + 1
            /\ pc' = "kw_loop"
            /\ UNCHANGED << scraper_idx, page >>
    /\ UNCHANGED << cfgv, lang_idx, old_count, pages_requested, supply, countv,
                    batch, jobv, dbv, slept, fx >>

\* fault: the try/except of lines 448-475 and 488-495 left out, the
\* exception leaves run
ProcessRaisedUncaught ==
    /\ pc = "raised"
    /\ pc' = "done"
    /\ batch' = 0
    /\ job' = NoJob
    /\ is_markdown' = FALSE
    /\ ai_data' = NoneV
    /\ geo' = NoneV
    /\ calls' = << >>
    /\ UNCHANGED << cfgv, lang_idx, scraper_idx, kw_idx, page, self_lang_count,
                    old_count, pages_requested, supply, countv, dbv, slept, fx >>

\* lines 473-475 and 494-495: an exception left process_job_list
ProcessRaised ==
    /\ pc = "raised"
    /\ IF IsAdzuna(scraper)
       THEN /\ scraper_idx' = scraper_idx + 1
            /\ pc' = "scraper_loop"
            /\ UNCHANGED kw_idx
       ELSE /\ kw_idx' = kw_idx + 1
            /\ pc' = "kw_loop"
            /\ UNCHANGED scraper_idx
    /\ batch' = 0
    /\ job' = NoJob
    /\ is_markdown' = FALSE
    /\ ai_data' = NoneV
    /\ geo' = NoneV
    /\ calls' = << >>
    /\ UNCHANGED << cfgv, lang_idx, page, self_lang_count, old_count,
                    pages_requested, supply, countv, dbv, slept, fx >>

\* lines 497-500: both close() calls, then the report
Finish ==
    /\ pc = "close"
    /\ close_calls' = close_calls + 2
    /\ pc' = "done"
    /\ UNCHANGED << cfgv, loopv, countv, batch, jobv, db_jobs, db_companies,
                    db_seniorities, slept, fx >>

-----------------------------------------------------------------------------
(* JobScraperOrchestrator.process_job_list *)

\* the log of the operations invoked for the job in hand: each with what came
\* of it ("pass", "fail": a negative gate, a None result; "raised")
Done(op, out) == [op |-> op, out |-> out]
Call(op, out) == calls' = Append(calls, Done(op, out))
PassIf(ok) == IF ok THEN "pass" ELSE "fail"

\* lines 207-209: the head of `for job in jobs`; the list is read one job at
\* a time, any job the adapter can report
NextJob(jobs) ==
    /\ pc = "job_loop"
    /\ IF batch = 0 \/ Quota(lang_count)
       THEN /\ pc' = "ret"
            /\ batch' = 0
            /\ UNCHANGED jobv
       ELSE \E j \in jobs :
            /\ job' = j
            /\ batch' = batch - 1
            /\ is_markdown' = FALSE
            /\ ai_data' = NoneV
            /\ geo' = NoneV
            /\ calls' = << >>
            /\ pc' = "link_gate"
    /\ UNCHANGED << cfgv, loopv, countv, dbv, slept, fx >>

\* lines 212-214
LinkGate ==
    /\ pc = "link_gate"
    /\ Call("link_check", PassIf(Truthy(Get(job["link"]))))
    /\ pc' = IF ~Truthy(Get(job["link"])) THEN "dropped" ELSE "relevance_gate"
    /\ UNCHANGED << cfgv, loopv, countv, batch, job, is_markdown, ai_data, geo,
                    dbv, slept, fx >>

\* lines 217-219
RelevanceGate ==
    /\ pc = "relevance_gate"
    /\ Call("is_relevant_job", PassIf(is_relevant_job(GetOr(job["title"], Chars(<< >>)))))
    /\ pc' = IF ~is_relevant_job(GetOr(job["title"], Chars(<< >>)))
             THEN "dropped" ELSE "date_gate"
    /\ UNCHANGED << cfgv, loopv, countv, batch, job, is_markdown, ai_data, geo,
                    dbv, slept, fx >>

\* line 230: parse_date(pub_date_raw) or datetime.now(pytz.utc)
published_at_for_db(pub_date_raw) ==
    IF Truthy(parse_date(pub_date_raw)) THEN parse_date(pub_date_raw)
    ELSE Instant(0, TRUE)

\* lines 222-232
DateGate ==
    /\ pc = "date_gate"
    /\ LET pub_date_raw == Get(job["published_at"]) IN
       /\ Call("is_published_today", PassIf(is_published_today(pub_date_raw, days_window)))
       /\ IF ~is_published_today(pub_date_raw, days_window)
          THEN /\ pc' = "dropped"
               /\ UNCHANGED job
          ELSE /\ job' = [job EXCEPT !["published_at"] = published_at_for_db(pub_date_raw)]
               /\ pc' = "expand"
    /\ UNCHANGED << cfgv, loopv, countv, batch, is_markdown, ai_data, geo,
                    dbv, slept, fx >>

\* lines 235-282: description expansion and the HTML-to-Markdown pass; the
\* request of fetch meets any of the outcomes of `nets`
Expand(nets) ==
    /\ pc = "expand"
    /\ IF needs_fetch(job)
       THEN \E net \in nets :
            LET res == fetch(job["link"], net) IN
            /\ Call("fetch", IF res.raised THEN "raised" ELSE PassIf(Truthy(res.desc)))
            /\ IF res.raised
               THEN IF Get(job["source"]) = Str("RSS Feed")
                    THEN /\ pc' = "dropped"
                         /\ UNCHANGED << job, is_markdown >>
                    ELSE /\ job' = to_markdown(job, FALSE)
                         /\ is_markdown' = FALSE
                         /\ pc' = "dedup"
               ELSE /\ job' = to_markdown(take_fetched(job, res), Truthy(res.desc))
                    /\ is_markdown' = Truthy(res.desc)
                    /\ pc' = "dedup"
       ELSE /\ job' = to_markdown(job, FALSE)
            /\ pc' = "dedup"
            /\ UNCHANGED << is_markdown, calls >>
    /\ UNCHANGED << cfgv, loopv, countv, batch, ai_data, geo, dbv, slept, fx >>

\* fault: a duplicate is logged and not skipped
DedupNoSkip ==
    /\ pc = "dedup"
    /\ Call("is_duplicate", PassIf(~is_duplicate(db_jobs, job).dup))
    /\ pc' = "categorize"
    /\ UNCHANGED << cfgv, loopv, countv, batch, job, is_markdown, ai_data, geo,
                    dbv, slept, fx >>

\* lines 285-287
Dedup ==
    /\ pc = "dedup"
    /\ Call("is_duplicate", PassIf(~is_duplicate(db_jobs, job).dup))
    /\ pc' = IF is_duplicate(db_jobs, job).dup THEN "dropped" ELSE "categorize"
    /\ UNCHANGED << cfgv, loopv, countv, batch, job, is_markdown, ai_data, geo,
                    dbv, slept, fx >>

\* fault: a job without AI result is stored as the adapter gave it
CategorizeKeepUnenriched(replies) ==
    /\ pc = "categorize"
    /\ slept' = FALSE
    /\ IF categorize_job_raises(job["description"])
       THEN /\ Call("categorize_job", "raised")
            /\ pc' = "raised"
            /\ UNCHANGED ai_data
       ELSE \E reply \in replies :
            /\ ai_data' = categorize_job(job["title"], job["description"], reply)
            /\ Call("categorize_job", PassIf(Truthy(ai_data')))
            /\ pc' = IF Truthy(ai_data') THEN "merge" ELSE "insert"
    /\ UNCHANGED << cfgv, loopv, countv, batch, job, is_markdown, geo, dbv, fx >>

\* lines 290-295 and 404-408: the AI call, any reply of `replies`
Categorize(replies) ==
    /\ pc = "categorize"
    /\ IF categorize_job_raises(job["description"])
       THEN /\ Call("categorize_job", "raised")
            /\ pc' = "raised"
            /\ UNCHANGED << ai_data, slept >>
       ELSE \E reply \in replies :
            /\ ai_data' = categorize_job(job["title"], job["description"], reply)
            /\ Call("categorize_job", PassIf(Truthy(ai_data')))
            /\ pc' = IF Truthy(ai_data') THEN "merge" ELSE "sleep"
            /\ slept' = FALSE
    /\ UNCHANGED << cfgv, loopv, countv, batch, job, is_markdown, geo, dbv, fx >>

\* lines 295-363: the merge, then the geocoder with any answer of `answers`
Merge(answers) ==
    /\ pc = "merge"
    /\ LET n == normalize_ai(ai_data.d)
           merged == merge(job, ai_data.d)
           address == geo_address(merged, n)
       IN  /\ ai_data' = DictV(n)
           /\ IF join_raises(address_parts(merged, n))
              THEN /\ job' = merged
                   /\ pc' = "raised"
                   /\ UNCHANGED << geo, calls >>
              ELSE /\ pc' = "upserts"
                   /\ IF Truthy(address)
                      THEN \E answer \in answers :
                           /\ geo' = get_coordinates(address, answer)
                           /\ calls' = Append(calls,
                                  [op |-> "get_coordinates",
                                   out |-> PassIf(Truthy(geo')), arg |-> address])
                           /\ job' = attach_geo(merged, geo')
                      ELSE /\ job' = merged
                           /\ UNCHANGED << geo, calls >>
    /\ UNCHANGED << cfgv, loopv, countv, batch, is_markdown, dbv, slept, fx >>

\* lines 366-377
Upserts ==
    /\ pc = "upserts"
    /\ LET has_company == Truthy(Get(job["company"]))
           has_seniority == Truthy(Get(job["seniority"]))
           c == upsert_company(db_companies, job["company"], 0)
           s == upsert_seniority(db_seniorities, job["seniority"], 0)
       IN  /\ db_companies' = IF has_company THEN c.coll ELSE db_companies
           /\ db_seniorities' = IF has_seniority THEN s.coll ELSE db_seniorities
           /\ job' = [job EXCEPT
                  !["company_id"] = IF has_company THEN c.id ELSE @,
                  !["seniority_id"] = IF has_seniority THEN s.id ELSE @,
                  !["employment_type"] =
                      IF Truthy(Get(ai_data.d["employment_type"]))
                      THEN ai_data.d["employment_type"] ELSE @]
           /\ calls' = calls
                  \o (IF has_company THEN << Done("upsert_company", "pass") >> ELSE << >>)
                  \o (IF has_seniority THEN << Done("upsert_seniority", "pass") >> ELSE << >>)
    /\ pc' = "insert"
    /\ UNCHANGED << cfgv, loopv, countv, batch, is_markdown, ai_data, geo,
                    db_jobs, close_calls, slept, fx >>

\* fault: lines 392-395 left out, the per-source count is not kept
count_import_without_sources(st, language, src) ==
    [st EXCEPT ![language] = [total |-> @.total + 1, sources |-> @.sources]]

\* lines 391-395
count_import(st, language, src) ==
    [st EXCEPT ![language] =
        [total |-> @.total + 1,
         sources |-> [k \in DOMAIN @.sources \cup {src} |->
                        (IF k \in DOMAIN @.sources THEN @.sources[k] ELSE 0)
                        + (IF k = src THEN 1 ELSE 0)]]]

\* lines 380-402
InsertJob ==
    /\ pc = "insert"
    /\ LET r == insert_job(db_jobs, job) IN
       /\ Call("insert_job", PassIf(Truthy(r.id)))
       /\ db_jobs' = r.coll
       /\ last_insert' = r.id
       /\ IF Truthy(r.id)
          THEN /\ lang_count' = lang_count + 1
               /\ stats' = count_import(stats, lang,
                                        GetOr(job["source"], Str("Unknown")).s)
               /\ persisted' = persisted + 1
          ELSE UNCHANGED << lang_count, stats, persisted >>
    /\ pc' = "sleep"
    /\ UNCHANGED << cfgv, loopv, batch, job, is_markdown, ai_data, geo,
                    db_companies, db_seniorities, close_calls, slept, fx >>

\* line 411, and the end of the iteration
Sleep ==
    /\ pc = "sleep"
    /\ slept' = TRUE
    /\ pc' = "job_loop"
    /\ job' = NoJob
    /\ is_markdown' = FALSE
    /\ ai_data' = NoneV
    /\ geo' = NoneV
    /\ calls' = << >>
    /\ UNCHANGED << cfgv, loopv, countv, batch, dbv, fx >>

\* the `continue` of a gate: the iteration ends without the sleep
Continue ==
    /\ pc = "dropped"
    /\ pc' = "job_loop"
    /\ job' = NoJob
    /\ is_markdown' = FALSE
    /\ ai_data' = NoneV
    /\ geo' = NoneV
    /\ calls' = << >>
    /\ UNCHANGED << cfgv, loopv, countv, batch, dbv, slept, fx >>

\* another process sharing the database stores a job under the link of the
\* job in hand, after the duplicate lookup and before the insert
OtherWriter ==
    /\ pc = "insert"
    /\ db_jobs' = insert_job(db_jobs, job).coll
    /\ db_jobs' # db_jobs
    /\ UNCHANGED << pc, cfgv, loopv, countv, batch, jobv, db_companies,
                    db_seniorities, close_calls, slept, fx >>

Next ==
    \/ NextLang \/ NextScraper \/ ScrapePage \/ ScrapeKeyword
    \/ ProcessReturned \/ ProcessRaised \/ Finish
    \/ NextJob(RunJobs(scraper)) \/ LinkGate \/ RelevanceGate \/ DateGate
    \/ Expand(RunNetsShort) \/ Dedup \/ Categorize(RunRepliesShort)
    \/ Merge(RunGeoShort) \/ Upserts \/ InsertJob
    \/ Sleep \/ Continue \/ OtherWriter

Spec == Init /\ [][Next]_vars

-----------------------------------------------------------------------------
(* One call of process_job_list, on any list of jobs an adapter can report  *)
(* and with every outcome of the fetch, the AI call and the geocoder: the   *)
(* orchestrator is inside its first language, at either adapter, with or    *)
(* without a quota, over an empty store or one that holds a job already.    *)

InitJob ==
    /\ pc = "job_loop"
    /\ limit_per_language \in {NoneV, IntV(1)}
    /\ days_window \in {1, 3}
    /\ lang_idx = 1
    /\ scraper_idx \in 1..Len(scrapers)
    /\ kw_idx = 1
    /\ page = 1
    /\ self_lang_count = 0
    /\ lang_count = 0
    /\ old_count = 0
    /\ stats = [l \in {languages[1]} |-> [total |-> 0, sources |-> << >>]]
    /\ batch = MaxBatch
    /\ supply = 0
    /\ job = NoJob
    /\ is_markdown = FALSE
    /\ ai_data = NoneV
    /\ geo = NoneV
    /\ calls = << >>
    /\ db_jobs \in {EmptyBag, SetToBag({Str("l1")})}
    /\ db_companies = << >>
    /\ db_seniorities = << >>
    /\ close_calls = 0
    /\ persisted = 0
    /\ last_insert = NoneV
    /\ slept = TRUE
    /\ pages_requested = 0
    /\ fx = NoneV

NextJobSpec ==
    \/ NextJob(AdapterJobs(scraper)) \/ LinkGate \/ RelevanceGate \/ DateGate
    \/ Expand(RunNets) \/ Dedup \/ Categorize(RunReplies) \/ Merge(RunGeo)
    \/ Upserts \/ InsertJob \/ Sleep \/ Continue \/ OtherWriter
    \/ ProcessReturned \/ ProcessRaised

SpecJob == InitJob /\ [][NextJobSpec]_vars

-----------------------------------------------------------------------------
(* The enrichment merge on its own: every job an adapter can hand over, as   *)
(* far as salary and remote flag go, against every shape of AI result.       *)

\* what an adapter reports as salary (Adzuna, Jobicy): nothing, None, a figure
AdapterSalaries == {Absent, NoneV, IntV(40000)}
\* what an adapter reports as remote flag
AdapterRemotes == {Absent, BoolV(TRUE), BoolV(FALSE)}

\* what the AI result carries as salary: nothing, null, a number, a number
\* in a string, a string that is no number, an empty string, a fraction, a
\* zero fraction, an empty list
AiSalaries ==
    {Absent, NoneV, IntV(35000), IntV(0),
     Chars(<< "3", "5", "0", "0", "0" >>), Chars(<< "3", "5", "k" >>),
     Chars(<< >>), FloatV(35000, 5), FloatV(0, 0), ListV(<< >>)}

\* the jobs handed to the merge, the adapters taken together: a salary as
\* Adzuna and Jobicy report it, a remote flag as Arbeitnow and Jobicy do, an
\* employment type as Jobicy does
MergeJobs ==
    {[AdapterJob("Jobicy", Str("l1"), Chars(<< "P", "y" >>), Instant(30, FALSE),
                 TextV(DescThreshold, FALSE, 0))
        EXCEPT !["salary_min"] = lo, !["salary_max"] = hi, !["remote"] = r,
               !["employment_type"] = et] :
        lo \in AdapterSalaries, hi \in {Absent, IntV(50000)}, r \in AdapterRemotes,
        et \in {Absent, Str("full-time")}}

MergeReplies ==
    {DictV(Dict(AiFields, [salary_min |-> lo, salary_max |-> hi, remote |-> r,
                           is_remote |-> ir, employment_type |-> et,
                           city |-> Str("Rome"), language |-> Str("en")])) :
        lo \in AiSalaries, hi \in {Absent, IntV(45000), Chars(<< >>)},
        r \in {Absent, BoolV(TRUE), BoolV(FALSE)}, ir \in {Absent, BoolV(TRUE)},
        et \in {Absent, Str("Contract")}}

\* the arguments of the merge under test
MergeInput(j, d) == [t |-> "merge", job |-> j, ai |-> d]

InitMerge ==
    /\ pc = "merge"
    /\ limit_per_language = NoneV
    /\ days_window = 1
    /\ lang_idx = 1
    /\ scraper_idx = 1
    /\ kw_idx = 1
    /\ page = 1
    /\ self_lang_count = 0
    /\ lang_count = 0
    /\ old_count = 0
    /\ stats = [l \in {languages[1]} |-> [total |-> 0, sources |-> << >>]]
    /\ batch = 0
    /\ supply = 0
    /\ job \in MergeJobs
    /\ is_markdown = FALSE
    /\ ai_data \in MergeReplies
    /\ geo = NoneV
    /\ calls = << Done("link_check", "pass"), Done("is_relevant_job", "pass"),
                  Done("is_published_today", "pass"), Done("is_duplicate", "pass"),
                  Done("categorize_job", "pass") >>
    /\ db_jobs = EmptyBag
    /\ db_companies = << >>
    /\ db_seniorities = << >>
    /\ close_calls = 0
    /\ persisted = 0
    /\ last_insert = NoneV
    /\ slept = FALSE
    /\ pages_requested = 0
    /\ fx = MergeInput(job, ai_data)

NextMerge == Merge(RunGeo)

SpecMerge == InitMerge /\ [][NextMerge]_vars

-----------------------------------------------------------------------------
(* DescriptionFetcher.fetch on its own: every URL against every outcome of   *)
(* the request and every page.                                               *)

\* longest child list of a container in the pages tried
MaxKids == 3

\* the nodes the pages are built from: a long text, a text of 49 characters
\* between whitespace, one of 50, whitespace, an image, an image without
\* src, a tag holding a short text and an image, a tag holding a long text
\* and an image, a script
Nodes ==
    {Text(0, 400, 0), Text(1, 49, 2), Text(0, 50, 0), Text(3, 0, 0),
     Img(Str("a.png")), Img(Absent),
     El(<< Text(0, 10, 0), Img(Str("b.png")) >>),
     El(<< Text(0, 400, 0), Img(Str("b.png")) >>), Junk(400)}

\* the child lists of up to MaxKids nodes
KidLists == UNION {[1..n -> Nodes] : n \in 1..MaxKids}

\* the pages: one element matched by the first selector, or no match and a
\* body; two matched elements; one element of exactly the floor's length; a
\* page without anything
Pages ==
    {Page(<< [sels |-> {1}, kids |-> k] >>, NoneV) : k \in KidLists}
    \cup {Page(<< >>, [kids |-> k]) : k \in KidLists}
    \cup {Page(<< [sels |-> {2}, kids |-> << Text(0, 400, 0), Img(Str("a.png")) >>],
                  [sels |-> {s}, kids |-> << Img(Str("b.png")), Text(0, n, 0) >>] >>,
               NoneV) : s \in 1..2, n \in {300, 400, 500}}
    \cup {Page(<< [sels |-> {1}, kids |-> << Text(0, TextFloor, 0) >>] >>, NoneV)}
    \cup {Page(<< >>, NoneV)}

\* the outcomes of the request
FetchNets ==
    {ConnError, Timeout, Response(404, Garbled), Response(500, LogoPage),
     Response(200, Garbled)}
    \cup {Response(200, p) : p \in Pages}

FetchUrls == {NoneV, Str(""), Str("l1")}

\* the arguments of the fetch under test, and what it gave
FetchInput(url, net) == [t |-> "fetch", url |-> url, net |-> net, out |-> NoneV]

InitFetch ==
    /\ pc = "fetch"
    /\ limit_per_language = NoneV
    /\ days_window = 1
    /\ lang_idx = 1
    /\ scraper_idx = 1
    /\ kw_idx = 1
    /\ page = 1
    /\ self_lang_count = 0
    /\ lang_count = 0
    /\ old_count = 0
    /\ stats = << >>
    /\ batch = 0
    /\ supply = 0
    /\ job = NoJob
    /\ is_markdown = FALSE
    /\ ai_data = NoneV
    /\ geo = NoneV
    /\ calls = << >>
    /\ db_jobs = EmptyBag
    /\ db_companies = << >>
    /\ db_seniorities = << >>
    /\ close_calls = 0
    /\ persisted = 0
    /\ last_insert = NoneV
    /\ slept = TRUE
    /\ pages_requested = 0
    /\ fx \in {FetchInput(url, net) : url \in FetchUrls, net \in FetchNets}

\* `await self.description_fetcher.fetch(url)`
FetchCall ==
    /\ pc = "fetch"
    /\ fx' = [fx EXCEPT !.out = fetch(fx.url, fx.net)]
    /\ pc' = "fetched"
    /\ UNCHANGED << cfgv, loopv, countv, batch, jobv, dbv, slept >>

NextFetch == FetchCall

SpecFetch == InitFetch /\ [][NextFetch]_vars

-----------------------------------------------------------------------------
(* BaseScraper.normalize_html on its own, as far as headings go: a document *)
(* is the sequence of its headings in document order.                       *)

\* the orchestrator at rest but for the job in hand and the jobs collection
DetachedButJob ==
    /\ limit_per_language = NoneV
    /\ days_window = 1
    /\ lang_idx = 1
    /\ scraper_idx = 1
    /\ kw_idx = 1
    /\ page = 1
    /\ self_lang_count = 0
    /\ lang_count = 0
    /\ old_count = 0
    /\ stats = << >>
    /\ batch = 0
    /\ supply = 0
    /\ is_markdown = FALSE
    /\ ai_data = NoneV
    /\ geo = NoneV
    /\ calls = << >>
    /\ db_companies = << >>
    /\ db_seniorities = << >>
    /\ close_calls = 0
    /\ persisted = 0
    /\ last_insert = NoneV
    /\ slept = TRUE
    /\ pages_requested = 0

\* the orchestrator at rest, for a function tried on its own
Detached ==
    /\ DetachedButJob
    /\ job = NoJob
    /\ db_jobs = EmptyBag

\* a heading tag h<level>; empty: it holds no text
Heading(level, empty) == [level |-> level, empty |-> empty]

\* step 1, `if len(tag.get_text(strip=True)) == 0 ...: tag.decompose()`
remove_empty_tags(hs) == SelectSeq(hs, LAMBDA h : ~h.empty)

\* `for h1 in soup.find_all("h1"): h1.name = "h2"`
demote_h1(levels) == [i \in DOMAIN levels |-> IF levels[i] = 1 THEN 2 ELSE levels[i]]

\* `if headings and headings[0].name != "h2": headings[0].name = "h2"`
first_to_h2(levels) ==
    IF levels # << >> /\ levels[1] # 2 THEN [levels EXCEPT ![1] = 2] ELSE levels

\* the loop over `headings` with last_level
RECURSIVE clamp(_, _)
clamp(levels, last_level) ==
    IF levels = << >> THEN << >>
    ELSE LET current_level == Head(levels) IN
         IF current_level > last_level + 1
         THEN << last_level + 1 >> \o clamp(Tail(levels), last_level + 1)
         ELSE << current_level >> \o clamp(Tail(levels), current_level)

\* fault: the hierarchy loop is left out (H1 is demoted, nothing else)
fix_hierarchy_skipped(levels) == levels

\* lines 57-82: the first heading, then the loop from last_level = 2
fix_hierarchy(levels) == clamp(first_to_h2(levels), 2)

\* BaseScraper.normalize_html: the levels of the headings of the output
normalize_html(hs) ==
    LET kept == remove_empty_tags(hs) IN
    fix_hierarchy(demote_h1([i \in DOMAIN kept |-> kept[i].level]))

\* most headings in a document tried
MaxHeadings == 4

\* the heading tags met: h1 to h6 with text, and an h3 without
HeadingTags == {Heading(l, FALSE) : l \in 1..6} \cup {Heading(3, TRUE)}

HeadingsInput(hs) == [t |-> "headings", hs |-> hs, out |-> NoneV]

InitHeadings ==
    /\ pc = "normalize_html"
    /\ Detached
    /\ fx \in {HeadingsInput(hs) :
                 hs \in UNION {[1..n -> HeadingTags] : n \in 0..MaxHeadings}}

\* `cleaned_html = self.normalize_html(str(desc_elem))`
NormalizeHtmlCall ==
    /\ pc = "normalize_html"
    /\ fx' = [fx EXCEPT !.out = normalize_html(fx.hs)]
    /\ pc' = "normalized"
    /\ UNCHANGED << cfgv, loopv, countv, batch, jobv, dbv, slept >>

NextHeadings == NormalizeHtmlCall

SpecHeadings == InitHeadings /\ [][NextHeadings]_vars

-----------------------------------------------------------------------------
(* The Date Normalizer on its own: parse_date and is_published_today on     *)
(* every kind of raw date an adapter hands over.                            *)

\* greatest age, in days, of the dates tried
MaxDays == 3

\* ages in hours: now, the last hour of each whole day and the first of the
\* next, and an instant five hours ahead
Ages == {-5} \cup {24 * d : d \in 0..MaxDays} \cup {24 * d + 23 : d \in 0..MaxDays}

\* offsets of the time zones met, in hours east of UTC
Offsets == {-5, 0, 2}

\* the raw dates: None, "", "older", naive and aware datetimes, dates,
\* strings in each of the formats, with offset, with today's date or a
\* same-day marker inside, and strings that are nothing of the kind
RawDates ==
    {NoneV, Str(""), Str("older"), Str("n/a")}
    \cup {Instant(a, FALSE) : a \in Ages}
    \cup {InstantTz(a, k) : a \in Ages, k \in Offsets}
    \cup {DateV(24 * d) : d \in 0..MaxDays}
    \cup {DateStr(f, a, FALSE, FALSE) : f \in {1, 2, 3, 5, 6, 7}, a \in Ages}
    \cup {DateStrTz(a, k) : a \in Ages, k \in Offsets}
    \cup {DateStr(0, 0, h, m) : h \in BOOLEAN, m \in BOOLEAN}

\* the windows tried
Windows == 0..MaxDays

DateInput(raw, window) ==
    [t |-> "date", raw |-> raw, window |-> window, out |-> NoneV]

InitDate ==
    /\ pc = "date"
    /\ Detached
    /\ fx \in {DateInput(raw, w) : raw \in RawDates, w \in Windows}

\* `parse_date(pub_date)`
ParseDateCall ==
    /\ pc = "date"
    /\ fx' = [fx EXCEPT !.out = parse_date(fx.raw)]
    /\ pc' = "parsed"
    /\ UNCHANGED << cfgv, loopv, countv, batch, jobv, dbv, slept >>

\* `is_published_today(pub_date_raw, days_window=...)`
IsPublishedTodayCall ==
    /\ pc = "date"
    /\ fx' = [fx EXCEPT !.out = BoolV(is_published_today(fx.raw, fx.window))]
    /\ pc' = "judged"
    /\ UNCHANGED << cfgv, loopv, countv, batch, jobv, dbv, slept >>

NextDate == ParseDateCall \/ IsPublishedTodayCall

SpecDate == InitDate /\ [][NextDate]_vars

-----------------------------------------------------------------------------
(* JobDeduplicator.is_duplicate on its own: any job against any store.      *)

\* the links of the jobs asked about: none, None, "", and links, one of
\* them differing from another in case only
DedupLinks == {Absent, NoneV, Str("")} \cup Links \cup {Str("L1")}

\* the stores: every set of at most MaxStored of these links
MaxStored == 2
DedupStores ==
    {SetToBag(ls) : ls \in {x \in SUBSET (Links \cup {Str("L1")}) :
                               Cardinality(x) <= MaxStored}}

DedupJobs ==
    {AdapterJob("RSS Feed", l, ti, Instant(30, FALSE), TextV(40, FALSE, 0)) :
        l \in DedupLinks, ti \in {Chars(<< "P", "y" >>), Absent}}

DedupInput(j, coll) == [t |-> "dedup", job |-> j, coll |-> coll, out |-> NoneV]

InitDedup ==
    /\ pc = "is_duplicate"
    /\ DetachedButJob
    /\ job \in DedupJobs
    /\ db_jobs \in DedupStores
    /\ fx = DedupInput(job, db_jobs)

\* `self.deduplicator.is_duplicate(job)`: nothing is written
IsDuplicateCall ==
    /\ pc = "is_duplicate"
    /\ fx' = [fx EXCEPT !.out = is_duplicate(db_jobs, job)]
    /\ pc' = "deduped"
    /\ UNCHANGED << cfgv, loopv, countv, batch, jobv, dbv, slept >>

NextDedup == IsDuplicateCall

SpecDedup == InitDedup /\ [][NextDedup]_vars

-----------------------------------------------------------------------------
(* The Relevance Filter, on its own over every short title, and inside one  *)
(* call of process_job_list.                                                *)

\* longest title tried
MaxTitle == 3

\* the titles: None, and every string of up to MaxTitle of these characters
TitleChars == {"p", "P", "y", "Y", "g", "x"}
Titles ==
    {NoneV} \cup {Chars(cs) : cs \in UNION {[1..n -> TitleChars] : n \in 0..MaxTitle}}

TitleInput(title) == [t |-> "title", title |-> title, out |-> NoneV]

InitRelevance ==
    /\ pc = "is_relevant_job"
    /\ Detached
    /\ fx \in {TitleInput(title) : title \in Titles}

\* `self.is_relevant_job(title)`
IsRelevantJobCall ==
    /\ pc = "is_relevant_job"
    /\ fx' = [fx EXCEPT !.out = BoolV(is_relevant_job(fx.title))]
    /\ pc' = "relevance_judged"
    /\ UNCHANGED << cfgv, loopv, countv, batch, jobv, dbv, slept >>

\* the filter is called on a title, or process_job_list on a list of jobs
InitRelevanceOrJob == InitRelevance \/ InitJob

NextRelevance == IsRelevantJobCall \/ NextJobSpec

SpecRelevance == InitRelevanceOrJob /\ [][NextRelevance]_vars

-----------------------------------------------------------------------------
(* The enrichment merge on every shape of city the AI result can carry.     *)

\* what the AI result carries as city: nothing, null, a string, an empty
\* string, a list of names, an empty list, a list of a number, numbers,
\* booleans
AiCities ==
    {Absent, NoneV, Str("Rome"), Str(""),
     ListV(<< Str("Rome"), Str("Turin") >>), ListV(<< >>), ListV(<< IntV(7) >>),
     IntV(7), IntV(0), BoolV(TRUE), BoolV(FALSE), FloatV(0, 0)}

CityReplies ==
    {DictV(Dict(AiFields, [city |-> c, country |-> co, formatted_address |-> fa,
                           language |-> Str("it")])) :
        c \in AiCities, co \in {Absent, Str("Italy")},
        fa \in {Absent, Str("Via Roma 1, Rome")}}

\* a generic location string as JobsCollider and Techmap report it
AdapterLocations == {Absent, Str("Remote")}

CityJobs ==
    {[AdapterJob("RSS Feed", Str("l1"), Chars(<< "P", "y" >>), Instant(30, FALSE),
                 TextV(DescThreshold, FALSE, 0))
        EXCEPT !["remote"] = r, !["location"] = lo] :
        r \in AdapterRemotes, lo \in AdapterLocations}

InitCity ==
    /\ pc = "merge"
    /\ DetachedButJob
    /\ job \in CityJobs
    /\ db_jobs = EmptyBag
    /\ fx \in {MergeInput(job, d) : d \in CityReplies}

\* line 291: the AI result arrives
TakeReply ==
    /\ pc = "merge"
    /\ ai_data = NoneV
    /\ ai_data' = fx.ai
    /\ UNCHANGED << pc, cfgv, loopv, countv, batch, job, is_markdown, geo, calls,
                    dbv, slept, fx >>

NextCity == TakeReply \/ (ai_data # NoneV /\ Merge(RunGeo))

SpecCity == InitCity /\ [][NextCity]_vars

-----------------------------------------------------------------------------
(* From the AI result to the insert, on every shape of remote flag and of    *)
(* its legacy alias.                                                         *)

\* what the AI result carries as remote or is_remote: nothing, null, a
\* boolean, a word, an empty string
AiRemotes == {Absent, NoneV, BoolV(TRUE), BoolV(FALSE), Str("yes"), Str("")}

RemoteReplies ==
    {DictV(Dict(AiFields, [remote |-> r, is_remote |-> ir, city |-> Str("Rome"),
                           language |-> Str("en")])) :
        r \in AiRemotes, ir \in AiRemotes}

RemoteJobs ==
    {[AdapterJob("Jobicy", Str("l1"), Chars(<< "P", "y" >>), Instant(30, FALSE),
                 TextV(DescThreshold, FALSE, 0))
        EXCEPT !["remote"] = r] : r \in AdapterRemotes}

InitRemote ==
    /\ pc = "merge"
    /\ limit_per_language = NoneV
    /\ days_window = 1
    /\ lang_idx = 1
    /\ scraper_idx = 1
    /\ kw_idx = 1
    /\ page = 1
    /\ self_lang_count = 0
    /\ lang_count = 0
    /\ old_count = 0
    /\ stats = [l \in {languages[1]} |-> [total |-> 0, sources |-> << >>]]
    /\ batch = 0
    /\ supply = 0
    /\ job \in RemoteJobs
    /\ is_markdown = FALSE
    /\ ai_data = NoneV
    /\ geo = NoneV
    /\ calls = << >>
    /\ db_jobs = EmptyBag
    /\ db_companies = << >>
    /\ db_seniorities = << >>
    /\ close_calls = 0
    /\ persisted = 0
    /\ last_insert = NoneV
    /\ slept = FALSE
    /\ pages_requested = 0
    /\ fx \in {MergeInput(job, d) : d \in RemoteReplies}

NextRemote == TakeReply \/ (ai_data # NoneV /\ Merge(RunGeo)) \/ Upserts \/ InsertJob

SpecRemote == InitRemote /\ [][NextRemote]_vars

-----------------------------------------------------------------------------
(* The paged loop of one language on its own, no quota configured, against   *)
(* an adapter that has a new job for every page.                             *)

\* a link no job reported before carries: one per job the adapter still has
FreshLink == Chars([i \in 1..(supply + batch) |-> "p"])

\* what the paged adapter reports next: a job never seen before, or one too
\* old for the window
PageJobs ==
    {AdapterJob("Adzuna", FreshLink, Chars(<< "P", "y" >>), Instant(a, FALSE),
                TextV(DescThreshold, FALSE, 0)) : a \in {30, 50}}

PageReplies == {DictV(Dict(AiFields, [language |-> Str("en")]))}

InitPages ==
    /\ pc = "page_loop"
    /\ limit_per_language = NoneV
    /\ days_window = 1
    /\ lang_idx = 1
    /\ scraper_idx = 1
    /\ kw_idx = 1
    /\ page = 1
    /\ self_lang_count = 0
    /\ lang_count = 0
    /\ old_count = 0
    /\ stats = [l \in {languages[1]} |-> [total |-> 0, sources |-> << >>]]
    /\ batch = 0
    /\ supply = MaxPage + 1
    /\ job = NoJob
    /\ is_markdown = FALSE
    /\ ai_data = NoneV
    /\ geo = NoneV
    /\ calls = << >>
    /\ db_jobs = EmptyBag
    /\ db_companies = << >>
    /\ db_seniorities = << >>
    /\ close_calls = 0
    /\ persisted = 0
    /\ last_insert = NoneV
    /\ slept = TRUE
    /\ pages_requested = 0
    /\ fx = NoneV

NextPages ==
    \/ ScrapePage \/ ProcessReturned
    \/ NextJob(PageJobs) \/ LinkGate \/ RelevanceGate \/ DateGate
    \/ Expand(RunNetsShort) \/ Dedup \/ Categorize(PageReplies)
    \/ Merge(RunGeoShort) \/ Upserts \/ InsertJob \/ Sleep \/ Continue

SpecPages == InitPages /\ [][NextPages]_vars

-----------------------------------------------------------------------------
(* Two pipeline instances (two processes, each with its own orchestrator)    *)
(* over one store: each takes its job from the duplicate lookup to the       *)
(* insert, in any interleaving.  An instance is at "dedup", "categorize",    *)
(* "insert", "skipped" (its lookup found the link) or "done".                *)

Instances == {1, 2}

RaceLinks == {Str("l1"), Str("l2")}

RaceJobs ==
    {AdapterJob(src, l, Chars(<< "P", "y" >>), Instant(30, FALSE),
                TextV(DescThreshold, FALSE, 0)) :
        src \in {"Adzuna", "RSS Feed"}, l \in RaceLinks}

\* the counters of an orchestrator inside its first language
FirstLangStats == [l \in {languages[1]} |-> [total |-> 0, sources |-> << >>]]

InitRace ==
    /\ pc = "race"
    /\ DetachedButJob
    /\ job = NoJob
    /\ db_jobs \in {EmptyBag, SetToBag({Str("l2")})}
    /\ fx \in {[t |-> "race", jobs |-> << j1, j2 >>,
                at |-> << "dedup", "dedup" >>,
                dup |-> << NoneV, NoneV >>,
                ids |-> << NoneV, NoneV >>,
                lang_counts |-> << 0, 0 >>,
                stats |-> << FirstLangStats, FirstLangStats >>] :
                  j1 \in RaceJobs, j2 \in RaceJobs}

RaceRest ==
    UNCHANGED << pc, cfgv, loopv, countv, batch, jobv, db_companies,
                 db_seniorities, close_calls, slept >>

\* lines 285-287 in instance i
RaceDedup(i) ==
    /\ fx.at[i] = "dedup"
    /\ LET d == is_duplicate(db_jobs, fx.jobs[i]).dup IN
       fx' = [fx EXCEPT !.dup[i] = BoolV(d),
                        !.at[i] = IF d THEN "skipped" ELSE "categorize"]
    /\ UNCHANGED db_jobs
    /\ RaceRest

\* lines 291-377 in instance i: the AI call and the merge, no access to the
\* jobs collection
RaceEnrich(i) ==
    /\ fx.at[i] = "categorize"
    /\ fx' = [fx EXCEPT !.at[i] = "insert"]
    /\ UNCHANGED db_jobs
    /\ RaceRest

\* lines 380-395 in instance i
RaceInsert(i) ==
    /\ fx.at[i] = "insert"
    /\ LET r == insert_job(db_jobs, fx.jobs[i]) IN
       /\ db_jobs' = r.coll
       /\ fx' = [fx EXCEPT
                   !.ids[i] = r.id,
                   !.at[i] = "done",
                   !.lang_counts[i] = IF Truthy(r.id) THEN @ + 1 ELSE @,
                   !.stats[i] = IF Truthy(r.id)
                                THEN count_import(@, languages[1],
                                         GetOr(fx.jobs[i]["source"], Str("Unknown")).s)
                                ELSE @]
    /\ RaceRest

RaceStep(i) == RaceDedup(i) \/ RaceEnrich(i) \/ RaceInsert(i)

NextRace == \E i \in Instances : RaceStep(i)

SpecRace == InitRace /\ [][NextRace]_vars

-----------------------------------------------------------------------------
(* The keyword loop of one adapter on its own, against an AI provider whose  *)
(* reply may name the country as a list.                                     *)

SleepJobs ==
    {AdapterJob("RSS Feed", l, Chars(<< "P", "y" >>), Instant(30, FALSE),
                TextV(DescThreshold, FALSE, 0)) : l \in {Str("l1"), Str("l2")}}

\* the replies of the AI provider: a failure, a result naming city and
\* country, a result naming the country in a list
SleepReplies ==
    {NoneV,
     DictV(Dict(AiFields, [city |-> Str("Rome"), country |-> Str("Italy")])),
     DictV(Dict(AiFields, [city |-> Str("Rome"),
                           country |-> ListV(<< Str("Italy") >>)]))}

InitSleep ==
    /\ pc = "kw_loop"
    /\ limit_per_language \in {NoneV, IntV(2)}
    /\ days_window = 1
    /\ lang_idx = 1
    /\ scraper_idx = Len(scrapers)
    /\ kw_idx = 1
    /\ page = 1
    /\ self_lang_count = 0
    /\ lang_count = 0
    /\ old_count = 0
    /\ stats = FirstLangStats
    /\ batch = 0
    /\ supply = MaxJobs
    /\ job = NoJob
    /\ is_markdown = FALSE
    /\ ai_data = NoneV
    /\ geo = NoneV
    /\ calls = << >>
    /\ db_jobs = EmptyBag
    /\ db_companies = << >>
    /\ db_seniorities = << >>
    /\ close_calls = 0
    /\ persisted = 0
    /\ last_insert = NoneV
    /\ slept = TRUE
    /\ pages_requested = 0
    /\ fx = NoneV

NextSleep ==
    \/ ScrapeKeyword \/ ProcessReturned \/ ProcessRaised
    \/ NextJob(SleepJobs) \/ LinkGate \/ RelevanceGate \/ DateGate
    \/ Expand(RunNetsShort) \/ Dedup \/ Categorize(SleepReplies)
    \/ Merge(RunGeoShort) \/ Upserts \/ InsertJob \/ Sleep \/ Continue

SpecSleep == InitSleep /\ [][NextSleep]_vars

-----------------------------------------------------------------------------
(* One job from the head of the loop to the end of the description          *)
(* expansion: any job an adapter can report, with or without a logo of its  *)
(* own, against every outcome of the request.                               *)

\* the company sub-record as the adapters build it: no logo key, a null
\* logo (Arbeitnow), a logo (LinkedIn, RemoteOK), a logo_url (Jobicy)
AdapterCompanies ==
    {DictV(Dict(CompanyFields, [name |-> Str("acme")])),
     DictV(Dict(CompanyFields, [name |-> Str("acme"), logo |-> NoneV])),
     DictV(Dict(CompanyFields, [name |-> Str("acme"), logo |-> Str("own.png")])),
     DictV(Dict(CompanyFields, [name |-> Str("acme"), logo_url |-> Str("own.png")]))}

ExpandJobs ==
    {[AdapterJob(src, l, ti, d, de) EXCEPT !["company"] = c] :
        src \in {"Jobicy", "RSS Feed"},
        l \in {Str("l1"), Absent},
        ti \in {Chars(<< "P", "y" >>), Chars(<< "x" >>)},
        d \in {Instant(30, FALSE), Instant(50, FALSE)},
        de \in {NoneV, TextV(40, TRUE, 1), TextV(DescThreshold - 1, FALSE, 0),
                TextV(DescThreshold, TRUE, 1)},
        c \in AdapterCompanies \cup {Absent}}

InitExpand ==
    /\ pc = "job_loop"
    /\ limit_per_language = NoneV
    /\ days_window = 1
    /\ lang_idx = 1
    /\ scraper_idx = 1
    /\ kw_idx = 1
    /\ page = 1
    /\ self_lang_count = 0
    /\ lang_count = 0
    /\ old_count = 0
    /\ stats = FirstLangStats
    /\ batch = 1
    /\ supply = 0
    /\ job = NoJob
    /\ is_markdown = FALSE
    /\ ai_data = NoneV
    /\ geo = NoneV
    /\ calls = << >>
    /\ db_jobs = EmptyBag
    /\ db_companies = << >>
    /\ db_seniorities = << >>
    /\ close_calls = 0
    /\ persisted = 0
    /\ last_insert = NoneV
    /\ slept = TRUE
    /\ pages_requested = 0
    /\ fx = NoneV

NextExpand ==
    \/ NextJob(ExpandJobs) \/ LinkGate \/ RelevanceGate \/ DateGate
    \/ Expand(RunNets) \/ Continue

SpecExpand == InitExpand /\ [][NextExpand]_vars

-----------------------------------------------------------------------------
(* upsert_company and upsert_seniority on their own: any sequence of calls   *)
(* over collections that start empty.                                        *)

\* calls followed
MaxUpserts == 3

UpsertCompanies ==
    {DictV(Dict(CompanyFields, [name |-> n, logo |-> lg, logo_url |-> lu])) :
        n \in {Str("acme"), Str("beta"), NoneV},
        lg \in {Absent, NoneV, Str("a.png")}, lu \in {Absent, Str("u.png")}}

UpsertLevels == {Str("Senior"), Str("Junior"), Str(""), NoneV}

\* fx: the calls made so far (their count is the clock), the last call, and
\* every (operation, key, id) returned so far
InitUpsert ==
    /\ pc = "upsert"
    /\ Detached
    /\ fx = [t |-> "upsert", n |-> 0, last |-> NoneV, returned |-> {}]

UpsertRest ==
    UNCHANGED << pc, cfgv, loopv, countv, batch, jobv, db_jobs, close_calls, slept >>

UpsertCompanyCall ==
    /\ fx.t = "upsert"
    /\ fx.n < MaxUpserts
    /\ \E c \in UpsertCompanies :
       LET r == upsert_company(db_companies, c, fx.n) IN
       /\ db_companies' = r.coll
       /\ fx' = [fx EXCEPT !.n = @ + 1,
                           !.last = [op |-> "upsert_company", arg |-> c, id |-> r.id],
                           !.returned = @ \cup {[op |-> "upsert_company",
                                                 key |-> Get(c.d["name"]), id |-> r.id]}]
    /\ UNCHANGED db_seniorities
    /\ UpsertRest

UpsertSeniorityCall ==
    /\ fx.t = "upsert"
    /\ fx.n < MaxUpserts
    /\ \E level \in UpsertLevels :
       LET r == upsert_seniority(db_seniorities, level, fx.n) IN
       /\ db_seniorities' = r.coll
       /\ fx' = [fx EXCEPT !.n = @ + 1,
                           !.last = [op |-> "upsert_seniority", arg |-> level, id |-> r.id],
                           !.returned = @ \cup {[op |-> "upsert_seniority",
                                                 key |-> IF Truthy(level) THEN level
                                                         ELSE Str("Unknown"),
                                                 id |-> r.id]}]
    /\ UNCHANGED db_companies
    /\ UpsertRest

NextUpsert == UpsertCompanyCall \/ UpsertSeniorityCall

SpecUpsert == InitUpsert /\ [][NextUpsert]_vars

-----------------------------------------------------------------------------
(* Properties *)

\* the log of the job in hand: whether op was invoked, with what outcome, and
\* how often
Called(op) == \E i \in DOMAIN calls : calls[i].op = op
Outcome(op, out) == \E i \in DOMAIN calls : calls[i].op = op /\ calls[i].out = out
Times(op) == Cardinality({i \in DOMAIN calls : calls[i].op = op})

\* the place of an operation in the pipeline
Stage(op) ==
    CASE op = "link_check" -> 1
      [] op = "is_relevant_job" -> 2
      [] op = "is_published_today" -> 3
      [] op = "fetch" -> 4
      [] op = "is_duplicate" -> 5
      [] op = "categorize_job" -> 6
      [] op \in {"get_coordinates", "upsert_company", "upsert_seniority"} -> 7
      [] op = "insert_job" -> 8

\* the operations whose negative outcome ends the job
Gates == {"link_check", "is_relevant_job", "is_published_today", "is_duplicate",
          "categorize_job"}

\* C1: with a quota N configured, the number of jobs persisted for a language
\* (insert_job returned an id) never exceeds N.
C1_QuotaRespected ==
    Truthy(limit_per_language) => persisted <= limit_per_language.n

\* C2: the operations invoked for one job follow the pipeline order (link
\* check, relevance, freshness, expansion, duplicate lookup, AI, geocoding and
\* upserts, insert); an operation is only invoked after every earlier gate
\* was passed, so a failed gate is the job's last operation; a job with an
\* irrelevant title sees no fetch, lookup or AI call, and insert_job is never
\* called for a job reported as duplicate.
C2_PipelineOrder ==
    /\ \A i, j \in DOMAIN calls :
          i < j => \/ Stage(calls[i].op) < Stage(calls[j].op)
                   \/ /\ Stage(calls[i].op) = 7
                      /\ Stage(calls[j].op) = 7
                      /\ calls[i].op # calls[j].op
    /\ \A i \in DOMAIN calls :
          (calls[i].op \in Gates /\ calls[i].out # "pass") => i = Len(calls)
    /\ \A i \in DOMAIN calls : \A g \in Gates :
          Stage(g) < Stage(calls[i].op) => Outcome(g, "pass")
    /\ ~Truthy(Get(job["link"])) => \A i \in DOMAIN calls : calls[i].op = "link_check"
    /\ ~is_relevant_job(GetOr(job["title"], Chars(<< >>)))
          => ~Called("fetch") /\ ~Called("is_duplicate") /\ ~Called("categorize_job")
    /\ Outcome("is_duplicate", "fail") => ~Called("insert_job")

\* a job is dropped as a duplicate after its description was fetched
C2_Witness ==
    /\ pc = "dropped"
    /\ Called("fetch")
    /\ Outcome("is_duplicate", "fail")

\* the job in hand has a link, a relevant title and a publish date at most
\* days_window whole days old, is no duplicate, got an AI result, and the
\* geocoder returned coordinates
C3_Premise ==
    /\ Truthy(Get(job["link"]))
    /\ is_relevant_job(GetOr(job["title"], Chars(<< >>)))
    /\ job["published_at"].t = "instant"
    /\ Days(job["published_at"].age) <= days_window
    /\ Outcome("is_duplicate", "pass")
    /\ Truthy(ai_data)
    /\ Outcome("get_coordinates", "pass")

\* C3: a job meeting C3_Premise goes on to the insert, its location_geo a
\* GeoJSON Point of the geocoder's coordinates, and when its iteration ends
\* insert_job was called exactly once; a job whose date is more than
\* days_window whole days old ends at the date gate and never reaches
\* insert_job (nor anything else after the gate).
C3_FreshJobInsertedOnce ==
    /\ C3_Premise =>
          /\ pc \in {"upserts", "insert", "sleep"}
          /\ Truthy(geo)
          /\ job["location_geo"] = Point(<< geo.lng, geo.lat >>)
          /\ Times("insert_job") = (IF pc = "sleep" THEN 1 ELSE 0)
    /\ (job["published_at"].t = "instant"
        /\ Days(job["published_at"].age) > days_window) =>
          /\ \A i \in DOMAIN calls : Stage(calls[i].op) <= 3
          /\ Called("is_published_today") =>
                pc = "dropped" /\ Outcome("is_published_today", "fail")

\* such a job, a whole day old under a window of one day, after its insert
C3_Witness ==
    /\ C3_Premise
    /\ pc = "sleep"
    /\ days_window = 1
    /\ Days(job["published_at"].age) = 1
    /\ Times("insert_job") = 1
    /\ job["location_geo"] = Point(<< 12, 41 >>)

\* this step is the call of insert_job for the job in hand
InsertJobStep ==
    /\ Len(calls') = Len(calls) + 1
    /\ calls'[Len(calls')].op = "insert_job"

AiGaveNothing == Outcome("categorize_job", "fail")

\* C5: when the AI call returns null the job ends there: neither geocoder nor
\* upsert_company, upsert_seniority or insert_job is invoked for it; the
\* per-language counter, the statistics and the collections stay as they
\* are; and the loop goes on to the next job of the batch.
C5_NullAiResultDropsJob ==
    /\ [](AiGaveNothing =>
            /\ pc = "sleep"
            /\ calls[Len(calls)].op = "categorize_job"
            /\ \A i \in DOMAIN calls : Stage(calls[i].op) <= 6)
    /\ [][(AiGaveNothing \/ AiGaveNothing') =>
            /\ UNCHANGED << lang_count, stats, persisted, db_jobs, db_companies,
                            db_seniorities, batch >>
            /\ AiGaveNothing => pc' = "job_loop"]_vars

\* the AI call gave nothing for the first job of a batch of two
C5_Witness ==
    /\ AiGaveNothing
    /\ pc = "sleep"
    /\ batch = MaxBatch - 1

\* the expansion of the job in hand failed
ExpansionFailed == Outcome("fetch", "fail") \/ Outcome("fetch", "raised")

\* C6: when the expansion fails, a job of the strict source "RSS Feed" is
\* dropped there and reaches neither duplicate lookup nor AI nor insert; a
\* job of any other source is not dropped there and goes on to the lookup.
C6_StrictSourceDropped ==
    ExpansionFailed =>
        IF Get(job["source"]) = Str("RSS Feed")
        THEN /\ pc = "dropped"
             /\ \A i \in DOMAIN calls : Stage(calls[i].op) <= 4
        ELSE pc = "dropped" => Called("is_duplicate")

\* the salary the merged record should carry
ClaimedSalary(adapter, ai) ==
    IF Get(adapter) # NoneV THEN adapter
    ELSE IF py_int(Get(ai)).ok THEN IntV(py_int(Get(ai)).n)
    ELSE NoneV

\* the merge under test has acted
Merged == fx.t = "merge" /\ pc = "upserts"

\* C7: after the merge, salary_min and salary_max are the adapter's values
\* when these are non-null, else the AI's value coerced to an integer, or
\* null when the coercion fails.
C7_SalaryMerge ==
    Merged => \A f \in {"salary_min", "salary_max"} :
                 Get(job[f]) = ClaimedSalary(fx.job[f], fx.ai.d[f])

\* C8: after the merge every field both the adapter and the AI provide
\* carries the adapter's value.
C8_AdapterPrecedence ==
    Merged => \A f \in AiFields \ {"is_remote"} :
                 (Get(fx.job[f]) # NoneV /\ fx.ai.d[f] # Absent)
                    => job[f] = fx.job[f]

\* C8, amended: after the merge only the adapter's non-null salary_min and
\* salary_max stand against the AI's; every other field the AI result
\* provides carries the AI's value, and the remote flag always does (is_remote
\* if the result has it, else its remote, else false).
C8_OnlySalaryPrecedence ==
    Merged =>
        /\ \A f \in {"salary_min", "salary_max"} :
              Get(fx.job[f]) # NoneV => job[f] = fx.job[f]
        /\ \A f \in {"employment_type", "language", "seniority", "country",
                     "formatted_address"} :
              fx.ai.d[f] # Absent => job[f] = fx.ai.d[f]
        /\ job["remote"] =
              BoolV(IF fx.ai.d["is_remote"] # Absent
                    THEN Truthy(fx.ai.d["is_remote"])
                    ELSE Truthy(Get(fx.ai.d["remote"])))

\* the adapter's remote flag and employment type gave way to the AI's, its
\* salary did not
C8_Witness ==
    /\ Merged
    /\ fx.job["remote"] = BoolV(TRUE)
    /\ job["remote"] = BoolV(FALSE)
    /\ fx.job["employment_type"] = Str("full-time")
    /\ job["employment_type"] = Str("Contract")
    /\ fx.ai.d["salary_min"] = IntV(35000)
    /\ job["salary_min"] = IntV(40000)

\* the fetch under test has returned or raised
Fetched == fx.t = "fetch" /\ pc = "fetched"

\* the request of the fetch under test did not bring a page
RequestFailed ==
    \/ ~Truthy(fx.url)
    \/ fx.net.kind \in {"conn_error", "timeout"}
    \/ (fx.net.kind = "response" /\ fx.net.status # 200)
    \/ (fx.net.kind = "response" /\ fx.net.body.t # "html")

\* C9: fetch never raises; for an empty URL, a connection error, a timeout,
\* a status other than 200 or a body that cannot be parsed it returns
\* (null, null); a description only comes with a 200 response.
C9_FetchNeverRaises ==
    Fetched =>
        /\ ~fx.out.raised
        /\ RequestFailed => (fx.out.desc = NoneV /\ fx.out.logo = NoneV)
        /\ fx.out.desc # NoneV =>
              (fx.net.kind = "response" /\ fx.net.status = 200
               /\ fx.net.body.t = "html" /\ Truthy(fx.url))

\* the server answered 404
C9_Witness ==
    /\ Fetched
    /\ fx.url = Str("l1")
    /\ fx.net = Response(404, Garbled)
    /\ fx.out = [desc |-> NoneV, logo |-> NoneV, raised |-> FALSE]

\* the fetch under test got a page
GotPage ==
    /\ Fetched
    /\ Truthy(fx.url)
    /\ fx.net.kind = "response"
    /\ fx.net.status = 200
    /\ fx.net.body.t = "html"

\* the children of the container chosen on the page of the fetch under test
\* (<< >> when none is chosen), and the length of the stripped text before
\* its first image
ChosenKids ==
    IF target_container(fx.net.body) = NoneV THEN << >>
    ELSE target_container(fx.net.body).kids
TextBeforeFirstImage == strip_len(texts(previous_siblings(ChosenKids)))

\* C10: the Markdown _extract_content returns holds no image; logo_url is
\* non-null only when the first image of the chosen container has less than
\* 50 characters of text in the siblings before it, and is then that image's
\* src; otherwise logo_url is null.
C10_NoImagesAndLogoRule ==
    GotPage =>
        /\ fx.out.desc # NoneV =>
              \A i \in DOMAIN fx.out.desc.toks : fx.out.desc.toks[i].k # "image"
        /\ fx.out.logo # NoneV =>
              /\ find_all_img(ChosenKids) # << >>
              /\ TextBeforeFirstImage < 50
              /\ fx.out.logo = find_all_img(ChosenKids)[1].src
        /\ (find_all_img(ChosenKids) = << >> \/ TextBeforeFirstImage >= 50)
              => fx.out.logo = NoneV
        /\ (find_all_img(ChosenKids) # << >> /\ TextBeforeFirstImage < 50)
              => fx.out.logo = Get(find_all_img(ChosenKids)[1].src)

\* a container with two images, the first after 49 characters of text: the
\* first became the logo, neither is in the Markdown
C10_Witness ==
    /\ GotPage
    /\ Len(find_all_img(ChosenKids)) = 2
    /\ TextBeforeFirstImage = 49
    /\ fx.out.logo = Str("a.png")
    /\ fx.out.desc # NoneV

\* normalize_html has returned
Normalized == fx.t = "headings" /\ pc = "normalized"

\* the levels of the headings of the input that hold text
InputLevels ==
    LET kept == SelectSeq(fx.hs, LAMBDA h : ~h.empty) IN
    [i \in DOMAIN kept |-> kept[i].level]

\* C11: in the output of normalize_html no heading is level 1, the first
\* heading is level 2, every heading is at most one level below the heading
\* before it, and no heading has a greater level number than it came with
\* except a level 1 become level 2; level 1 followed by level 4 becomes
\* level 2 followed by level 3.
C11_HeadingHierarchy ==
    Normalized =>
        /\ Len(fx.out) = Len(InputLevels)
        /\ \A i \in DOMAIN fx.out : fx.out[i] \in 2..6
        /\ fx.out # << >> => fx.out[1] = 2
        /\ \A i \in DOMAIN fx.out : i > 1 => fx.out[i] <= fx.out[i - 1] + 1
        /\ \A i \in DOMAIN fx.out :
              fx.out[i] > InputLevels[i] => (InputLevels[i] = 1 /\ fx.out[i] = 2)
        /\ InputLevels = << 1, 4 >> => fx.out = << 2, 3 >>

\* h1, h4 became h2, h3
C11_Witness ==
    /\ Normalized
    /\ fx.hs = << Heading(1, FALSE), Heading(4, FALSE) >>
    /\ fx.out = << 2, 3 >>

\* parse_date has returned
Parsed == fx.t = "date" /\ pc = "parsed"

\* the raw date carries a time zone: an aware datetime, or a string in the
\* format with numeric offset
CarriesZone ==
    \/ (fx.raw.t = "instant" /\ fx.raw.aware)
    \/ (fx.raw.t = "datestr" /\ fx.raw.fmt = 4)

\* C12: a raw date carrying a time zone normalizes to its instant in UTC,
\* without tzinfo: a reading of hour h at offset +k becomes hour h - k, that
\* is k hours older than the reading.
C12_ConvertedToUtc ==
    (Parsed /\ CarriesZone) => fx.out = Instant(fx.raw.age + fx.raw.offset, FALSE)

\* C13: parse_date returns null for null, "" and "older", and for a string
\* that matches no format and does not hold today's date; a naive datetime
\* comes back as it is, a date as its midnight, a string that matches a
\* format as the reading that format gives (without tzinfo).
C13_ParseDateCases ==
    Parsed =>
        /\ fx.raw \in {NoneV, Str(""), Str("older")} => fx.out = NoneV
        /\ fx.raw.t = "str" => fx.out = NoneV
        /\ (fx.raw.t = "datestr" /\ fx.raw.fmt = 0 /\ ~fx.raw.has_today)
              => fx.out = NoneV
        /\ (fx.raw.t = "instant" /\ ~fx.raw.aware) => fx.out = fx.raw
        /\ fx.raw.t = "date" => fx.out = Instant(fx.raw.age, FALSE)
        /\ (fx.raw.t = "datestr" /\ fx.raw.fmt > 0) =>
              /\ fx.out.t = "instant"
              /\ ~fx.out.aware
              /\ fx.raw.fmt # 4 => fx.out.age = fx.raw.age

\* yesterday's date became yesterday's midnight
C13_Witness ==
    /\ Parsed
    /\ fx.raw = DateV(24)
    /\ fx.out = Instant(24, FALSE)

\* is_published_today has returned
Judged == fx.t = "date" /\ pc = "judged"

\* C14: is_published_today(raw, window) is true iff raw normalizes to an
\* instant whose age in whole days is at most window (the boundary and
\* window 0 included), or raw normalizes to null and is a string holding
\* "today" or "oggi"; null without marker is refused under every window.
C14_FreshnessRule ==
    Judged =>
        LET t == parse_date(fx.raw) IN
        fx.out = BoolV(IF t # NoneV
                       THEN (t.age \div 24) <= fx.window
                       ELSE fx.raw.t = "datestr" /\ fx.raw.marker)

\* 47 hours old is one whole day: accepted under a window of one day
C14_Witness ==
    /\ Judged
    /\ fx.raw = Instant(47, FALSE)
    /\ fx.window = 1
    /\ fx.out = BoolV(TRUE)

\* C15: once the job in hand is past the date gate, and so in every record
\* passed to insert_job, published_at is null or a naive (UTC) instant,
\* never the adapter's raw string or sentinel, also when the job was let
\* through on a same-day marker.
C15_PublishedAtCanonical ==
    Outcome("is_published_today", "pass") =>
        LET p == Get(job["published_at"]) IN
        \/ p = NoneV
        \/ (p.t = "instant" /\ ~p.aware)

\* is_duplicate has returned
Deduped == fx.t = "dedup" /\ pc = "deduped"

\* C16: is_duplicate returns false without a lookup when the job's link is
\* missing or empty; otherwise it makes one lookup and returns true iff the
\* store holds a job with exactly that link; store and job stay as they were.
C16_DuplicateLookup ==
    Deduped =>
        /\ fx.job["link"] \in {Absent, NoneV, Str("")}
              => fx.out = [dup |-> FALSE, lookups |-> 0]
        /\ fx.job["link"] \notin {Absent, NoneV, Str("")}
              => /\ fx.out.lookups = 1
                 /\ fx.out.dup <=> (fx.job["link"] \in BagToSet(fx.coll))
        /\ job = fx.job
        /\ db_jobs = fx.coll

\* the store holds "L1", the job asked about is "l1": not a duplicate
C16_Witness ==
    /\ Deduped
    /\ fx.job["link"] = Str("l1")
    /\ Str("L1") \in BagToSet(fx.coll)
    /\ fx.out = [dup |-> FALSE, lookups |-> 1]

\* is_relevant_job has returned
RelevanceJudged == fx.t = "title" /\ pc = "relevance_judged"

\* some keyword is in the title, case apart
HoldsKeyword(cs) ==
    \E i \in DOMAIN keywords : Contains(Lower(cs), Lower(keywords[i]))

\* C17: is_relevant_job(title) is true iff the title is non-empty and holds a
\* configured keyword, case apart; no job whose title is missing or empty
\* is passed to insert_job.
C17_RelevanceRule ==
    /\ RelevanceJudged =>
          fx.out = BoolV(/\ fx.title.t = "chars"
                         /\ fx.title.cs # << >>
                         /\ HoldsKeyword(fx.title.cs))
    /\ Called("insert_job") => Truthy(Get(job["title"]))

\* "xPY" holds the keyword "py"
C17_Witness ==
    /\ RelevanceJudged
    /\ fx.title = Chars(<< "x", "P", "Y" >>)
    /\ fx.out = BoolV(TRUE)

\* C18: after the merge the job's city is no list: a non-empty list from
\* the AI has become its first element as a string, an empty list null, a
\* number or boolean its string form.
C18_CityNormalized ==
    Merged =>
        LET c == fx.ai.d["city"] IN
        /\ job["city"].t # "list"
        /\ (c.t = "list" /\ c.l # << >>) => job["city"] = py_str(c.l[1])
        /\ c = ListV(<< >>) => Get(job["city"]) = NoneV
        /\ c.t \in {"int", "bool", "float"} => job["city"] = py_str(c)

\* C19: the record handed to insert_job has a boolean remote and no
\* is_remote: remote is the alias when the AI gives the alias, else the AI's
\* remote, else false.
C19_RemoteIsBoolean ==
    Called("insert_job") =>
        /\ job["remote"].t = "bool"
        /\ job["is_remote"] = Absent
        /\ fx.t = "merge" =>
              LET r == fx.ai.d["remote"]
                  ir == fx.ai.d["is_remote"]
              IN  job["remote"] = IF ir # Absent THEN BoolV(Truthy(ir))
                                  ELSE IF r # Absent THEN BoolV(Truthy(r))
                                  ELSE BoolV(FALSE)

C19_Witness ==
    /\ Called("insert_job")
    /\ fx.t = "merge"
    /\ fx.ai.d["remote"] = BoolV(TRUE)
    /\ fx.ai.d["is_remote"] = BoolV(FALSE)
    /\ fx.job["remote"] = BoolV(TRUE)
    /\ job["remote"] = BoolV(FALSE)

\* the sum of the counts of a per-source table
RECURSIVE SumOf(_)
SumOf(f) ==
    IF DOMAIN f = {} THEN 0
    ELSE LET k == CHOOSE x \in DOMAIN f : TRUE
         IN  f[k] + SumOf([x \in DOMAIN f \ {k} |-> f[x]])

\* the language whose inserts `persisted` counts: at the head of the language
\* loop it is still the one that just ended
CountedLang == IF pc \in {"lang_loop", "close", "done"} THEN lang_idx - 1 ELSE lang_idx

\* the entry of a language in a statistics table, before and after its
\* initialisation
StatsOf(st, l) == IF l \in DOMAIN st THEN st[l] ELSE [total |-> 0, sources |-> << >>]

\* this step is a call of insert_job that returned an id
ImportedStep ==
    /\ InsertJobStep
    /\ calls'[Len(calls')].out = "pass"

\* C20: for every language stats[lang].total is the number of insert_job
\* calls of that language that returned an id and is the sum of its
\* per-source counts; the entry of a language only changes, by one, in a
\* step where insert_job returns an id for that language, never when a job
\* is dropped at a gate or insert_job returns null.
C20_StatsMatchImports ==
    /\ [](CountedLang \in DOMAIN languages =>
            StatsOf(stats, languages[CountedLang]).total = persisted)
    /\ [](\A l \in DOMAIN stats : stats[l].total = SumOf(stats[l].sources))
    /\ [][\A i \in DOMAIN languages :
            LET l == languages[i] IN
            IF ImportedStep /\ i = lang_idx
            THEN StatsOf(stats', l).total = StatsOf(stats, l).total + 1
            ELSE StatsOf(stats', l) = StatsOf(stats, l)]_vars

\* in the second language, after an import in each language, insert_job
\* returns null
C20_Witness ==
    /\ lang_idx = 2
    /\ Outcome("insert_job", "fail")
    /\ stats[languages[1]].total >= 1
    /\ stats[languages[2]].total = 1
    /\ persisted = 1

\* C21: an exception of an adapter's invocation is caught: from the handler
\* the run goes on with the next adapter (paged mode) or the next keyword
\* (keyword mode) of the same language; no adapter, keyword or language is
\* skipped, an adapter is left early and a language ended early only on the
\* quota, and the run ends only after the last language.
C21_AdapterErrorContained ==
    [][/\ pc = "raised" =>
            /\ lang_idx' = lang_idx
            /\ IF IsAdzuna(scraper)
               THEN pc' = "scraper_loop" /\ scraper_idx' = scraper_idx + 1
               ELSE pc' = "kw_loop" /\ scraper_idx' = scraper_idx
                    /\ kw_idx' = kw_idx + 1
       /\ (pc = "kw_loop" /\ pc' = "kw_loop") => kw_idx' = kw_idx + 1
       /\ (pc = "scraper_loop" /\ scraper_idx <= Len(scrapers)
             /\ ~Quota(self_lang_count)) => pc' \in {"page_loop", "kw_loop"}
       /\ (pc = "kw_loop" /\ kw_idx <= Len(keywords) /\ ~Quota(self_lang_count))
             => pc' \in {"kw_loop", "job_loop"}
       /\ scraper_idx' # scraper_idx =>
             \/ scraper_idx' = scraper_idx + 1
             \/ pc = "lang_loop" /\ scraper_idx' = 1
       /\ lang_idx' # lang_idx =>
             /\ lang_idx' = lang_idx + 1
             /\ scraper_idx > Len(scrapers) \/ Quota(self_lang_count)
       /\ pc' \in {"close", "done"} => lang_idx > Len(languages)]_vars

\* in the first language the paged adapter's batch ended in an exception
\* after a job of it was persisted (the count of the batch is lost), and the
\* keyword adapter registered after it has reported a job
C21_Witness ==
    /\ persisted > self_lang_count
    /\ lang_count = self_lang_count
    /\ pc = "link_gate"
    /\ lang_idx = 1
    /\ scraper_idx = 2
    /\ kw_idx = 1

\* C22: the persistence handle is closed exactly once, at the end of the run
\* after the last language: never more than one close() call, exactly one
\* when the run is over, none while jobs are still processed.
C22_ClosedExactlyOnce ==
    /\ close_calls <= 1
    /\ pc = "done" => close_calls = 1
    /\ pc # "done" => close_calls = 0

\* C23: the page requests made for a language never exceed the safety cap
\* of the paged loop (the loop leaves at `page > 5`, after the request of
\* the page past the cap at the latest).
C23_PageRequestsCapped == pages_requested <= SafetyPage + 1

\* the run is at one of its quota checks (lines 426-429, 441-445, 479-482)
AtQuotaCheck ==
    \/ pc = "scraper_loop" /\ scraper_idx <= Len(scrapers)
    \/ pc = "page_loop"
    \/ pc = "kw_loop" /\ kw_idx <= Len(keywords)

\* C24: at every quota check self.lang_count is the number of jobs persisted
\* for the current language since its pass began, which is what
\* stats[lang].total grew by during the pass.
C24_CounterCountsPersisted ==
    AtQuotaCheck =>
        /\ self_lang_count = persisted
        /\ self_lang_count = stats[lang].total

\* both instances hold the same link and both lookups answered not-found
BothMissed ==
    /\ fx.t = "race"
    /\ Get(fx.jobs[1]["link"]) = Get(fx.jobs[2]["link"])
    /\ fx.dup = << BoolV(FALSE), BoolV(FALSE) >>

AiRequestStep ==
    /\ pc = "categorize"
    /\ ~categorize_job_raises(job["description"])

\* C26: between two consecutive AI calls the loop sleeps: when an AI call is
\* issued, the loop has slept since the one before it.
C26_SleepBetweenAiCalls == [][AiRequestStep => slept]_vars

\* the job in hand passed the link, relevance and date gates
PassedGates ==
    /\ Outcome("link_check", "pass")
    /\ Outcome("is_relevant_job", "pass")
    /\ Outcome("is_published_today", "pass")

\* this step invokes the content extractor
FetchStep ==
    /\ Len(calls') = Len(calls) + 1
    /\ calls'[Len(calls')].op = "fetch"

\* the job in hand carries a logo of its adapter
HasOwnLogo ==
    /\ job["company"].t = "dict"
    /\ Truthy(Get(job["company"].d["logo"])) \/ Truthy(Get(job["company"].d["logo_url"]))

\* C27: the content extractor is invoked for a job iff the job passed the
\* three gates and its description is missing or under 500 characters; a
\* description it returns replaces the job's and is not converted again; a
\* job that carries a logo of its adapter keeps its company sub-record as it
\* is.
C27_ExpansionRule ==
    /\ [](Called("fetch") => PassedGates)
    /\ [](pc = "expand" => PassedGates)
    /\ [][pc = "expand" =>
            LET desc == GetOr(job["description"], NoneV)
                short == ~Truthy(desc) \/ DescLen(desc) < DescThreshold
            IN  /\ FetchStep <=> short
                /\ (FetchStep /\ calls'[Len(calls')].out = "pass") =>
                      /\ job'["description"] # job["description"]
                      /\ job'["description"].t = "md"
                      /\ is_markdown'
                /\ HasOwnLogo => job'["company"] = job["company"]]_vars

\* the calls of the geocoder made for the job in hand
GeoCalls == {i \in DOMAIN calls : calls[i].op = "get_coordinates"}

\* the address the geocoder should be asked: the AI's formatted_address,
\* else "city, country" or "city" when a city is known, else none
ClaimedAddress ==
    LET given == Get(fx.ai.d["formatted_address"]) IN
    IF Truthy(given) THEN given
    ELSE IF ~Truthy(Get(job["city"])) THEN NoneV
    ELSE IF Truthy(Get(job["country"])) THEN Joined(<< job["city"], job["country"] >>)
    ELSE Joined(<< job["city"] >>)

\* C28: the geocoder is called at most once per job, and iff an address is
\* available, with the AI's formatted_address or else "city, country"
\* (country left out when unknown); location_geo is set iff the geocoder
\* succeeded and is then the Point [lng, lat]; a location the job already
\* carries is kept.
C28_GeocodingRule ==
    /\ Cardinality(GeoCalls) <= 1
    /\ Merged =>
          /\ GeoCalls # {} <=> Truthy(ClaimedAddress)
          /\ \A i \in GeoCalls : calls[i].arg = ClaimedAddress
          /\ job["location_geo"] # Absent <=> Outcome("get_coordinates", "pass")
          /\ Outcome("get_coordinates", "pass") =>
                job["location_geo"] = Point(<< geo.lng, geo.lat >>)
          /\ Truthy(Get(fx.job["location"])) => job["location"] = fx.job["location"]

\* the AI gave an address and a city, the geocoder answered, and the job
\* keeps the location of its adapter
C28_Witness ==
    /\ Merged
    /\ Truthy(Get(fx.ai.d["formatted_address"]))
    /\ Truthy(Get(fx.ai.d["city"]))
    /\ Outcome("get_coordinates", "pass")
    /\ job["location_geo"] = Point(<< 12, 41 >>)
    /\ job["location"] = Str("Remote")

\* the documents of a collection whose field `key` is `value`
Holding(coll, key, value) == {i \in DOMAIN coll : coll[i][key] = value}

\* the call of this step carries no logo
NoLogoGiven ==
    /\ fx'.last.op = "upsert_company"
    /\ ~Truthy(Get(fx'.last.arg.d["logo"]))
    /\ ~Truthy(Get(fx'.last.arg.d["logo_url"]))

\* C29: upserts by one key (a company name, a level) return one identifier
\* every time and leave one stored record of that key; no upsert changes
\* the identifier or the insert-time defaults of a stored company, and an
\* upsert_company without logo leaves the stored logo as it is.
C29_UpsertIdempotent ==
    /\ [](fx.t = "upsert" =>
            \A a \in fx.returned :
               /\ \A b \in fx.returned : (a.op = b.op /\ a.key = b.key) => a.id = b.id
               /\ (a.op = "upsert_company" /\ Truthy(a.key)) =>
                     /\ Cardinality(Holding(db_companies, "name", a.key)) = 1
                     /\ \A i \in Holding(db_companies, "name", a.key) :
                           db_companies[i]._id = a.id
               /\ a.op = "upsert_seniority" =>
                     /\ Cardinality(Holding(db_seniorities, "level", a.key)) = 1
                     /\ \A i \in Holding(db_seniorities, "level", a.key) :
                           db_seniorities[i]._id = a.id)
    /\ [][fx.t = "upsert" =>
            /\ \A i \in DOMAIN db_companies :
                  /\ db_companies'[i]._id = db_companies[i]._id
                  /\ db_companies'[i].name = db_companies[i].name
                  /\ db_companies'[i].created_at = db_companies[i].created_at
                  /\ db_companies'[i].trustScore = db_companies[i].trustScore
                  /\ db_companies'[i].totalRatings = db_companies[i].totalRatings
                  /\ db_companies'[i].totalLikes = db_companies[i].totalLikes
                  /\ db_companies'[i].totalDislikes = db_companies[i].totalDislikes
                  /\ NoLogoGiven =>
                        /\ db_companies'[i].logo = db_companies[i].logo
                        /\ db_companies'[i].logo_url = db_companies[i].logo_url
            /\ \A i \in DOMAIN db_seniorities : db_seniorities'[i] = db_seniorities[i]]_vars

\* a company stored with a logo was upserted again without one, a level
\* stored in between
C29_Witness ==
    /\ fx.t = "upsert"
    /\ fx.n = MaxUpserts
    /\ Len(db_companies) = 1
    /\ db_companies[1].logo = Str("a.png")
    /\ db_companies[1].created_at = 0
    /\ fx.last.op = "upsert_company"
    /\ fx.last.id = Oid(1)
    /\ ~Truthy(Get(fx.last.arg.d["logo"]))
    /\ ~Truthy(Get(fx.last.arg.d["logo_url"]))
    /\ Len(db_seniorities) = 1

\* the container the page of the fetch under test should give: among the
\* matched elements not under the floor the longest, the earliest in
\* document order among equals; else the body when it exceeds the floor;
\* else none
ClaimedContainer ==
    LET html == fx.net.body
        els == [i \in 1..Len(html.els) |->
                   [sels |-> html.els[i].sels,
                    kids |-> remove_unwanted(html.els[i].kids)]]
        survivors == {i \in 1..Len(els) : text_len(els[i].kids) >= TextFloor}
        best == CHOOSE i \in survivors :
                   /\ \A j \in survivors : text_len(els[j].kids) <= text_len(els[i].kids)
                   /\ \A j \in survivors :
                         j < i => text_len(els[j].kids) < text_len(els[i].kids)
    IN  IF survivors # {} THEN els[best]
        ELSE IF html.body # NoneV
                /\ text_len(remove_unwanted(html.body.kids)) > TextFloor
             THEN [sels |-> {}, kids |-> remove_unwanted(html.body.kids)]
             ELSE NoneV

\* C30: _extract_content works on the longest matched element not under the
\* 300-character floor, the earliest in document order among equals, else on
\* the body when it exceeds the floor, and else returns (null, null).
C30_ContainerChoice ==
    GotPage =>
        /\ target_container(fx.net.body) = ClaimedContainer
        /\ IF ClaimedContainer = NoneV
           THEN fx.out.desc = NoneV /\ fx.out.logo = NoneV
           ELSE LET lg == extract_logo(ClaimedContainer.kids) IN
                /\ fx.out.logo = lg.logo_url
                /\ fx.out.desc = Markdown(_clean_markdown(md(strip_images(lg.kids))))

=============================================================================
